---- MODULE Spec2Model ----
(***************************************************************************)
(* A model of the arrow-grid engine of src/src/game.ts: the grid of arrow  *)
(* cells, the connectivity resolver, the cellular-automaton simulator      *)
(* (updateCA), the graph compiler (createNodes + simplifyNodes), the node  *)
(* simulator (updateNodes) and the edit handlers that repair the node      *)
(* graph (updatePlayerInput, onKeyDown, onCut, onClick).                   *)
(*                                                                         *)
(* The classes LogicNode, NodeRestructuring, Arrow, Chunk, GameMap and the *)
(* helper sendSignal are imported by game.ts from files that are not part  *)
(* of the sources at hand; they are modelled from the written              *)
(* specification (sections 3, 4.1 and 4.5) and marked so in the map.       *)
(***************************************************************************)
EXTENDS Integers, Sequences, FiniteSets, TLC

VARIABLES
    map,          \* this.map: world position -> Arrow record (the cells of the window)
    chunks,       \* this.map.chunks: the chunk coordinates, in insertion order
    pool,         \* the heap of LogicNode objects: node id -> LogicNode record
    nodes,        \* this.nodes: the set of live node ids
    nodeArray,    \* this.nodeArray: the snapshot of this.nodes the node simulator iterates
    updateSystem, \* the module-level selector: 0 - CA, 1 - nodes
    ticks,        \* number of ticks run so far (capped by MaxTicks)
    edits,        \* number of edits made so far (capped by MaxEdits)
    log           \* history, kept when log.on: one record for each tick run, oldest first

vars == <<map, chunks, pool, nodes, nodeArray, updateSystem, ticks, edits, log>>

----------------------------------------------------------------------------
(* Bounds of the model. *)

MaxTicks == 4
MaxEdits == 2
MaxCells == 3
MaxChain == 3
MaxEditTicks == 2
MaxRow == 4

(* Program constants. *)

CHUNK_SIZE == 16

NoNode == 0

----------------------------------------------------------------------------
(* Small helpers. *)

Range(s) == {s[i] : i \in 1..Len(s)}

IndexOf(s, e) == CHOOSE i \in 1..Len(s) : s[i] = e

SeqSum(s) == LET RECURSIVE Go(_)
                 Go(i) == IF i > Len(s) THEN 0 ELSE s[i] + Go(i + 1)
             IN Go(1)

Without(s, e) == SelectSeq(s, LAMBDA x : x # e)

Count(s, e) == Cardinality({i \in 1..Len(s) : s[i] = e})

\* ~~(a / b) of JavaScript: the quotient truncated toward zero.
TruncDiv(a, b) == IF a >= 0 THEN a \div b ELSE -((-a) \div b)

----------------------------------------------------------------------------
(* Arrow: one grid cell (logic/arrow, modelled from section 3). *)

EmptyArrow == [arrowType |-> 0, rotation |-> 0, flipped |-> FALSE, medalType |-> 0,
               active |-> FALSE, signalCount |-> 0, node |-> NoNode, offset |-> 0]

NewArrow(t, r, f, m) == [arrowType |-> t, rotation |-> r, flipped |-> f, medalType |-> m,
                         active |-> FALSE, signalCount |-> 0, node |-> NoNode, offset |-> 0]

(* GameMap and Chunk (logic/game-map, logic/chunk, modelled from section 3). *)

ChunkOf(p) == <<p[1] \div CHUNK_SIZE, p[2] \div CHUNK_SIZE>>

LocalOf(p) == <<p[1] % CHUNK_SIZE, p[2] % CHUNK_SIZE>>

WorldOf(c, l) == <<c[1] * CHUNK_SIZE + l[1], c[2] * CHUNK_SIZE + l[2]>>

\* chunk.adjacentChunks[i]: N, NE, E, SE, S, SW, W, NW; <<>> when that chunk is absent.
AdjacentChunk(ch, c, i) ==
    LET d == CASE i = 0 -> <<0, -1>>  [] i = 1 -> <<1, -1>> [] i = 2 -> <<1, 0>>
               [] i = 3 -> <<1, 1>>   [] i = 4 -> <<0, 1>>  [] i = 5 -> <<-1, 1>>
               [] i = 6 -> <<-1, 0>>  [] i = 7 -> <<-1, -1>>
        n == <<c[1] + d[1], c[2] + d[2]>>
    IN IF n \in Range(ch) THEN n ELSE <<>>

\* chunk.getArrow(x, y): the cell of an existing chunk (empty where never written).
ChunkGetArrow(m, c, l) ==
    IF WorldOf(c, l) \in DOMAIN m THEN m[WorldOf(c, l)] ELSE EmptyArrow

\* map.getArrow(x, y): undefined (here EmptyArrow) when the chunk does not exist.
MapGetArrow(m, ch, p) ==
    IF ChunkOf(p) \in Range(ch) /\ p \in DOMAIN m THEN m[p] ELSE EmptyArrow

----------------------------------------------------------------------------
(* Connectivity resolver. *)

\* The rotation and mirroring of addTargetNode: the local position moved by (dx, dy).
AddTargetMove(a, l, d) ==
    LET dx == IF a.flipped THEN -d[1] ELSE d[1]
        dy == d[2]
    IN CASE a.rotation = 0 -> <<l[1] + dx, l[2] + dy>>
         [] a.rotation = 1 -> <<l[1] + dy, l[2] - dx>>
         [] a.rotation = 2 -> <<l[1] - dx, l[2] - dy>>
         [] a.rotation = 3 -> <<l[1] - dy, l[2] + dx>>
         [] OTHER -> l

\* The chunk re-basing of addTargetNode: the neighbour chunk and the local position in it.
AddTargetRebase(ch, c, l) ==
    LET x == l[1]
        y == l[2]
    IN IF x >= CHUNK_SIZE
       THEN IF y >= CHUNK_SIZE
            THEN [chunk |-> AdjacentChunk(ch, c, 3), local |-> <<x - CHUNK_SIZE, y - CHUNK_SIZE>>]
            ELSE IF y < 0
            THEN [chunk |-> AdjacentChunk(ch, c, 1), local |-> <<x - CHUNK_SIZE, y + CHUNK_SIZE>>]
            ELSE [chunk |-> AdjacentChunk(ch, c, 2), local |-> <<x - CHUNK_SIZE, y>>]
       ELSE IF x < 0
       THEN IF y < 0
            THEN [chunk |-> AdjacentChunk(ch, c, 7), local |-> <<x + CHUNK_SIZE, y + CHUNK_SIZE>>]
            ELSE IF y >= CHUNK_SIZE
            THEN [chunk |-> AdjacentChunk(ch, c, 5), local |-> <<x + CHUNK_SIZE, y - CHUNK_SIZE>>]
            ELSE [chunk |-> AdjacentChunk(ch, c, 6), local |-> <<x + CHUNK_SIZE, y>>]
       ELSE IF y < 0
       THEN [chunk |-> AdjacentChunk(ch, c, 0), local |-> <<x, y + CHUNK_SIZE>>]
       ELSE IF y >= CHUNK_SIZE
       THEN [chunk |-> AdjacentChunk(ch, c, 4), local |-> <<x, y - CHUNK_SIZE>>]
       ELSE [chunk |-> c, local |-> <<x, y>>]

\* addTargetNode up to its call of createNode: the world position of the non-empty
\* cell the offset leads to, or <<>>.
AddTargetCell(m, ch, c, a, l, d) ==
    LET rb == AddTargetRebase(ch, c, AddTargetMove(a, l, d))
    IN IF rb.chunk = <<>> THEN <<>>
       ELSE IF ChunkGetArrow(m, rb.chunk, rb.local).arrowType = 0 THEN <<>>
       ELSE WorldOf(rb.chunk, rb.local)

\* RelativeMove with the turn of rotation 3 made the wrong way round.
RelativeMove_WrongTurn(a, l, d) ==
    LET dx == IF a.flipped THEN -d[1] ELSE d[1]
        dy == d[2]
    IN CASE a.rotation = 0 -> <<l[1] + dx, l[2] + dy>>
         [] a.rotation = 1 -> <<l[1] + dy, l[2] - dx>>
         [] a.rotation = 2 -> <<l[1] - dx, l[2] - dy>>
         [] a.rotation = 3 -> <<l[1] + dy, l[2] - dx>>
         [] OTHER -> l

\* The rotation and mirroring of getArrowRelative.
RelativeMove(a, l, d) ==
    LET dx == IF a.flipped THEN -d[1] ELSE d[1]
        dy == d[2]
    IN CASE a.rotation = 0 -> <<l[1] + dx, l[2] + dy>>
         [] a.rotation = 1 -> <<l[1] + dy, l[2] - dx>>
         [] a.rotation = 2 -> <<l[1] - dx, l[2] - dy>>
         [] a.rotation = 3 -> <<l[1] - dy, l[2] + dx>>
         [] OTHER -> l

\* RelativeRebase looking at one axis only: an overflow of x hides an overflow of y.
RelativeRebase_OneAxis(ch, c, l) ==
    LET x == l[1]
        y == l[2]
    IN IF x >= CHUNK_SIZE
       THEN [chunk |-> AdjacentChunk(ch, c, 2), local |-> <<x - CHUNK_SIZE, y>>]
       ELSE IF x < 0
       THEN [chunk |-> AdjacentChunk(ch, c, 6), local |-> <<x + CHUNK_SIZE, y>>]
       ELSE IF y < 0
       THEN [chunk |-> AdjacentChunk(ch, c, 0), local |-> <<x, y + CHUNK_SIZE>>]
       ELSE IF y >= CHUNK_SIZE
       THEN [chunk |-> AdjacentChunk(ch, c, 4), local |-> <<x, y - CHUNK_SIZE>>]
       ELSE [chunk |-> c, local |-> <<x, y>>]

\* The chunk re-basing of getArrowRelative.
RelativeRebase(ch, c, l) ==
    LET x == l[1]
        y == l[2]
    IN IF x >= CHUNK_SIZE
       THEN IF y >= CHUNK_SIZE
            THEN [chunk |-> AdjacentChunk(ch, c, 3), local |-> <<x - CHUNK_SIZE, y - CHUNK_SIZE>>]
            ELSE IF y < 0
            THEN [chunk |-> AdjacentChunk(ch, c, 1), local |-> <<x - CHUNK_SIZE, y + CHUNK_SIZE>>]
            ELSE [chunk |-> AdjacentChunk(ch, c, 2), local |-> <<x - CHUNK_SIZE, y>>]
       ELSE IF x < 0
       THEN IF y < 0
            THEN [chunk |-> AdjacentChunk(ch, c, 7), local |-> <<x + CHUNK_SIZE, y + CHUNK_SIZE>>]
            ELSE IF y >= CHUNK_SIZE
            THEN [chunk |-> AdjacentChunk(ch, c, 5), local |-> <<x + CHUNK_SIZE, y - CHUNK_SIZE>>]
            ELSE [chunk |-> AdjacentChunk(ch, c, 6), local |-> <<x + CHUNK_SIZE, y>>]
       ELSE IF y < 0
       THEN [chunk |-> AdjacentChunk(ch, c, 0), local |-> <<x, y + CHUNK_SIZE>>]
       ELSE IF y >= CHUNK_SIZE
       THEN [chunk |-> AdjacentChunk(ch, c, 4), local |-> <<x, y - CHUNK_SIZE>>]
       ELSE [chunk |-> c, local |-> <<x, y>>]

\* GetArrowRelative without the test that the cell found is not empty.
GetArrowRelative_AnyCell(m, ch, c, a, l, d) ==
    LET rb == RelativeRebase(ch, c, RelativeMove(a, l, d))
    IN IF rb.chunk = <<>> THEN <<>> ELSE WorldOf(rb.chunk, rb.local)

\* getArrowRelative: the world position of the non-empty cell at the offset, or <<>>
\* (the code returns [chunk, arrow, [x, y]] or undefined).
GetArrowRelative(m, ch, c, a, l, d) ==
    LET rb == RelativeRebase(ch, c, RelativeMove(a, l, d))
    IN IF rb.chunk = <<>> THEN <<>>
       ELSE IF ChunkGetArrow(m, rb.chunk, rb.local).arrowType > 0
       THEN WorldOf(rb.chunk, rb.local)
       ELSE <<>>

\* The per-shape offsets of createNode.
CreateNodeOffsets(t) ==
    CASE t = 1 -> << <<0, -1>> >>
      [] t = 2 -> << <<-1, 0>>, <<1, 0>> >>
      [] t = 3 -> << <<0, -1>>, <<1, 0>> >>
      [] t = 4 -> << <<-1, 0>>, <<0, -1>>, <<1, 0>> >>
      [] t = 5 -> << <<-1, 0>>, <<1, 0>>, <<0, -1>>, <<0, 1>> >>
      [] t = 6 -> << <<0, -2>> >>
      [] t = 7 -> << <<1, -1>> >>
      [] t = 8 -> << <<0, -1>>, <<1, -1>> >>
      [] t = 9 -> << <<0, -2>>, <<1, 0>> >>
      [] t = 10 -> << <<-2, 0>>, <<1, 0>> >>
      [] t = 11 -> << <<0, -1>>, <<0, -2>> >>
      [] t = 12 -> << <<0, 0>>, <<0, -1>> >>
      [] t = 13 -> << <<-1, 0>>, <<0, 0>>, <<1, 0>> >>
      [] OTHER -> << >>

\* The per-shape offsets of getTargetArrows.
TargetOffsets(t) ==
    CASE t = 1 -> << <<0, -1>> >>
      [] t = 2 -> << <<-1, 0>>, <<1, 0>> >>
      [] t = 3 -> << <<0, -1>>, <<1, 0>> >>
      [] t = 4 -> << <<-1, 0>>, <<0, -1>>, <<1, 0>> >>
      [] t = 5 -> << <<-1, 0>>, <<1, 0>>, <<0, -1>>, <<0, 1>> >>
      [] t = 6 -> << <<0, -2>> >>
      [] t = 7 -> << <<1, -1>> >>
      [] t = 8 -> << <<0, -1>>, <<1, -1>> >>
      [] t = 9 -> << <<0, -2>>, <<1, 0>> >>
      [] t = 10 -> << <<-2, 0>>, <<1, 0>> >>
      [] t = 11 -> << <<0, -1>>, <<0, -2>> >>
      [] t = 12 -> << <<0, 0>>, <<0, -1>> >>
      [] t = 13 -> << <<-1, 0>>, <<0, 0>>, <<1, 0>> >>
      [] OTHER -> << >>

\* SendOffsets with the four-way arrow sending as the three-way arrow does.
SendOffsets_FourWayAsThree(t) == IF t = 5 THEN CreateNodeOffsets(4) ELSE CreateNodeOffsets(t)

\* The per-shape offsets updateCA sends signals along.
SendOffsets(t) ==
    CASE t = 1 -> << <<0, -1>> >>
      [] t = 2 -> << <<-1, 0>>, <<1, 0>> >>
      [] t = 3 -> << <<0, -1>>, <<1, 0>> >>
      [] t = 4 -> << <<-1, 0>>, <<0, -1>>, <<1, 0>> >>
      [] t = 5 -> << <<-1, 0>>, <<1, 0>>, <<0, -1>>, <<0, 1>> >>
      [] t = 6 -> << <<0, -2>> >>
      [] t = 7 -> << <<1, -1>> >>
      [] t = 8 -> << <<0, -1>>, <<1, -1>> >>
      [] t = 9 -> << <<0, -2>>, <<1, 0>> >>
      [] t = 10 -> << <<-2, 0>>, <<1, 0>> >>
      [] t = 11 -> << <<0, -1>>, <<0, -2>> >>
      [] t = 12 -> << <<0, 0>>, <<0, -1>> >>
      [] t = 13 -> << <<-1, 0>>, <<0, 0>>, <<1, 0>> >>
      [] OTHER -> << >>

\* getTargetArrows: the non-empty cells the cell at (chunk c, local l) signals to,
\* in table order (arrows.filter((arrow) => arrow)).
GetTargetArrows(m, ch, c, a, l) ==
    LET offs == TargetOffsets(a.arrowType)
        all  == [i \in 1..Len(offs) |-> GetArrowRelative(m, ch, c, a, l, offs[i])]
    IN SelectSeq(all, LAMBDA t : t # <<>>)

\* SourceCandidates without the four diagonal neighbours.
SourceCandidates_NoDiagonals ==
    << <<-1, 0>>, <<1, 0>>, <<0, 1>>, <<0, -1>>, <<-2, 0>>, <<2, 0>>, <<0, 2>>, <<0, -2>> >>

\* The candidate offsets getSourceArrows looks at, after the cell itself.
SourceCandidates ==
    << <<-1, 0>>, <<1, 0>>, <<0, 1>>, <<0, -1>>, <<-2, 0>>, <<2, 0>>, <<0, 2>>, <<0, -2>>,
       <<-1, 1>>, <<1, 1>>, <<-1, -1>>, <<1, -1>> >>

\* getSourceArrows: the non-empty cells among the candidates whose targets include
\* the cell at (chunk c, local l).
GetSourceArrows(m, ch, c, a, l) ==
    LET self == WorldOf(c, l)
        cand == <<self>> \o [i \in 1..Len(SourceCandidates) |->
                                GetArrowRelative(m, ch, c, a, l, SourceCandidates[i])]
        some == SelectSeq(cand, LAMBDA s : s # <<>>)
    IN SelectSeq(some, LAMBDA s :
           self \in Range(GetTargetArrows(m, ch, ChunkOf(s), m[s], LocalOf(s))))

----------------------------------------------------------------------------
(* CA simulator. *)

\* The non-empty cells of the chunks of the map.
Cells(m, ch) == {p \in DOMAIN m : ChunkOf(p) \in Range(ch) /\ m[p].arrowType > 0}

\* sendSignal of logic/utils (section 4.2, pass 1): the cell whose signalCount one
\* call increments, or <<>>.
SendSignalCell(m, ch, c, a, l, d) ==
    LET rb == RelativeRebase(ch, c, RelativeMove(a, l, d))
    IN IF rb.chunk = <<>> THEN <<>>
       ELSE IF ChunkGetArrow(m, rb.chunk, rb.local).arrowType > 0
       THEN WorldOf(rb.chunk, rb.local)
       ELSE <<>>

\* First loop of updateCA: how many signals cell q receives from the active cells.
CASignals(m, ch, q) ==
    Cardinality({pi \in {<<p, i>> : p \in Cells(m, ch), i \in 1..4} :
        /\ m[pi[1]].active
        /\ pi[2] <= Len(SendOffsets(m[pi[1]].arrowType))
        /\ SendSignalCell(m, ch, ChunkOf(pi[1]), m[pi[1]], LocalOf(pi[1]),
                          SendOffsets(m[pi[1]].arrowType)[pi[2]]) = q})

\* CAActivate with the threshold of function 3 off by one.
CAActivate_Strict(medalType, signalCount, active) ==
    CASE medalType = 0 -> signalCount > 0
      [] medalType = 1 -> TRUE
      [] medalType = 2 -> signalCount = 0
      [] medalType = 3 -> signalCount > 2
      [] medalType = 4 -> (signalCount % 2) = 1
      [] medalType = 5 -> IF signalCount > 0 THEN ~active ELSE active
      [] medalType = 6 -> IF signalCount > 0 THEN (signalCount % 2) = 0 ELSE active
      [] OTHER -> active

\* Second loop of updateCA: the new active flag of a cell.
CAActivate(medalType, signalCount, active) ==
    CASE medalType = 0 -> signalCount > 0
      [] medalType = 1 -> TRUE
      [] medalType = 2 -> signalCount = 0
      [] medalType = 3 -> signalCount >= 2
      [] medalType = 4 -> (signalCount % 2) = 1
      [] medalType = 5 -> IF signalCount > 0 THEN ~active ELSE active
      [] medalType = 6 -> IF signalCount > 0 THEN (signalCount % 2) = 0 ELSE active
      [] OTHER -> active

\* updateCA: all sends, then all activations; signalCount is reset.
UpdateCA(m, ch) ==
    [p \in DOMAIN m |->
        IF p \in Cells(m, ch)
        THEN [m[p] EXCEPT
                !.active = CAActivate(m[p].medalType,
                                      m[p].signalCount + CASignals(m, ch, p), m[p].active),
                !.signalCount = 0]
        ELSE m[p]]

\* updateCA step by step, over the cells in the order the loops visit them.

\* sendSignal: ++signalCount on the cell found, if any.
SendOne(m, t) == IF t = << >> THEN m ELSE [m EXCEPT ![t].signalCount = @ + 1]

\* The sends of the active cell at p, one for each offset of its shape.
RECURSIVE CASendCell(_, _, _, _)
CASendCell(m, ch, p, i) ==
    IF i > Len(SendOffsets(m[p].arrowType)) THEN m
    ELSE CASendCell(SendOne(m, SendSignalCell(m, ch, ChunkOf(p), m[p], LocalOf(p),
                                              SendOffsets(m[p].arrowType)[i])),
                    ch, p, i + 1)

\* The first loop: every active cell sends.
RECURSIVE CASendLoop(_, _, _, _)
CASendLoop(m, ch, order, i) ==
    IF i > Len(order) THEN m
    ELSE IF m[order[i]].active THEN CASendLoop(CASendCell(m, ch, order[i], 1), ch, order, i + 1)
    ELSE CASendLoop(m, ch, order, i + 1)

\* The body of the second loop: the new active flag, and signalCount reset.
CAActivateCell(m, p) ==
    [m EXCEPT ![p].active = CAActivate(m[p].medalType, m[p].signalCount, m[p].active),
              ![p].signalCount = 0]

RECURSIVE CAActivateLoop(_, _, _)
CAActivateLoop(m, order, i) ==
    IF i > Len(order) THEN m
    ELSE IF m[order[i]].arrowType > 0 THEN CAActivateLoop(CAActivateCell(m, order[i]), order, i + 1)
    ELSE CAActivateLoop(m, order, i + 1)

\* One loop in which every cell sends and is activated at once.
RECURSIVE CAInterleavedLoop(_, _, _, _)
CAInterleavedLoop(m, ch, order, i) ==
    IF i > Len(order) THEN m
    ELSE IF m[order[i]].active
    THEN CAInterleavedLoop(CAActivateCell(CASendCell(m, ch, order[i], 1), order[i]),
                           ch, order, i + 1)
    ELSE CAInterleavedLoop(CAActivateCell(m, order[i]), ch, order, i + 1)

\* UpdateCAIn with the two passes interleaved.
UpdateCAIn_Interleaved(m, ch, order) == CAInterleavedLoop(m, ch, order, 1)

\* updateCA with the cells visited in the given order: all sends, then all activations.
UpdateCAIn(m, ch, order) == CAActivateLoop(CASendLoop(m, ch, order, 1), order, 1)

----------------------------------------------------------------------------
(* LogicNode (logic/node, modelled from sections 3 and 4.4). *)

Falses(n) == [i \in 1..n |-> FALSE]

\* new LogicNode(arrows, type, size): no edges, an all-false history of capacity size.
NewNode(arrows, type, size) ==
    [arrows |-> arrows, type |-> type, size |-> size, ready |-> FALSE,
     targets |-> <<>>, sources |-> <<>>, signals |-> Falses(size),
     signalCount |-> 0, lastSignal |-> FALSE, lastSignalCount |-> 0]

\* node.copy(): a fresh node with the same cells, type and size and no edges.
CopyNode(n) == NewNode(n.arrows, n.type, n.size)

\* signals.at(i): entry i, counted from the end when i is negative; an index out of
\* range reads as undefined, which every use treats as false.
SignalsAt(sig, i) ==
    LET k == IF i < 0 THEN Len(sig) + i + 1 ELSE i + 1
    IN IF k \in 1..Len(sig) THEN sig[k] ELSE FALSE

\* SignalsInsert putting the value behind the last entry, the first entry dropping.
SignalsInsert_Back(sig, v) ==
    IF Len(sig) = 0 THEN sig ELSE SubSeq(sig, 2, Len(sig)) \o <<v>>

\* signals.insert(v): v becomes entry 0, the oldest entry drops.
SignalsInsert(sig, v) ==
    IF Len(sig) = 0 THEN sig ELSE <<v>> \o SubSeq(sig, 1, Len(sig) - 1)

\* signals.set(i, v).
SignalsSet(sig, i, v) == IF i + 1 \in 1..Len(sig) THEN [sig EXCEPT ![i + 1] = v] ELSE sig

\* resize(n): capacity n, keeping the most recent entries in order (entry 0 is the
\* newest); entries added by growing are false.
SignalsResize(sig, n) ==
    IF n <= Len(sig) THEN SubSeq(sig, 1, n) ELSE sig \o Falses(n - Len(sig))

ResizeNode(n, size) == [n EXCEPT !.size = size, !.signals = SignalsResize(n.signals, size)]

\* The smallest identity not in use: the identity of the next object allocated.
NewId(pl) == CHOOSE i \in 1..(Cardinality(DOMAIN pl) + 1) : i \notin DOMAIN pl

Alloc(pl, n) == (NewId(pl) :> n) @@ pl

----------------------------------------------------------------------------
(* Node simulator. *)

\* NodeSignals reading the newest history entry instead of the oldest.
NodeSignals_Newest(pl, arr, t) ==
    LET RECURSIVE Go(_)
        Go(S) == IF S = {} THEN 0
                 ELSE LET n == CHOOSE x \in S : TRUE
                      IN (IF SignalsAt(pl[n].signals, 0) THEN Count(pl[n].targets, t) ELSE 0)
                         + Go(S \ {n})
    IN Go(arr \cap DOMAIN pl)

\* First loop of updateNodes: how many signals node t receives from the nodes of
\* nodeArray whose oldest history entry is set.
NodeSignals(pl, arr, t) ==
    LET RECURSIVE Go(_)
        Go(S) == IF S = {} THEN 0
                 ELSE LET n == CHOOSE x \in S : TRUE
                      IN (IF SignalsAt(pl[n].signals, -1) THEN Count(pl[n].targets, t) ELSE 0)
                         + Go(S \ {n})
    IN Go(arr \cap DOMAIN pl)

\* NodeActivate with function 0 asking for two signals.
NodeActivate_AtLeastTwo(type, signalCount, lastSignal) ==
    CASE type = 0 -> signalCount > 1
      [] type = 1 -> TRUE
      [] type = 2 -> signalCount = 0
      [] type = 3 -> signalCount >= 2
      [] type = 4 -> (signalCount % 2) = 1
      [] type = 5 -> IF signalCount > 0 THEN ~lastSignal ELSE lastSignal
      [] type = 6 -> IF signalCount > 0 THEN (signalCount % 2) = 0 ELSE lastSignal
      [] OTHER -> lastSignal

\* Second loop of updateNodes: the value pushed onto the history.
NodeActivate(type, signalCount, lastSignal) ==
    CASE type = 0 -> signalCount > 0
      [] type = 1 -> TRUE
      [] type = 2 -> signalCount = 0
      [] type = 3 -> signalCount >= 2
      [] type = 4 -> (signalCount % 2) = 1
      [] type = 5 -> IF signalCount > 0 THEN ~lastSignal ELSE lastSignal
      [] type = 6 -> IF signalCount > 0 THEN (signalCount % 2) = 0 ELSE lastSignal
      [] OTHER -> lastSignal

\* UpdateNodes without the reset of signalCount at the end of the second loop.
UpdateNodes_KeepCount(pl, arr) ==
    [n \in DOMAIN pl |->
        IF n \in arr
        THEN [pl[n] EXCEPT
                !.lastSignal = SignalsAt(pl[n].signals, 0),
                !.signals = SignalsInsert(pl[n].signals,
                                          NodeActivate(pl[n].type,
                                                       pl[n].signalCount + NodeSignals(pl, arr, n),
                                                       SignalsAt(pl[n].signals, 0))),
                !.lastSignalCount = pl[n].signalCount + NodeSignals(pl, arr, n),
                !.signalCount = pl[n].signalCount + NodeSignals(pl, arr, n)]
        ELSE [pl[n] EXCEPT !.signalCount = pl[n].signalCount + NodeSignals(pl, arr, n)]]

\* updateNodes: both loops run over nodeArray; a target outside nodeArray only
\* collects signalCount.
UpdateNodes(pl, arr) ==
    [n \in DOMAIN pl |->
        LET cnt  == pl[n].signalCount + NodeSignals(pl, arr, n)
            last == SignalsAt(pl[n].signals, 0)
        IN IF n \in arr
           THEN [pl[n] EXCEPT
                   !.lastSignal = last,
                   !.signals = SignalsInsert(pl[n].signals,
                                             NodeActivate(pl[n].type, cnt, last)),
                   !.lastSignalCount = cnt,
                   !.signalCount = 0]
           ELSE [pl[n] EXCEPT !.signalCount = cnt]]

----------------------------------------------------------------------------
(* Graph compiler: createNodes and simplifyNodes. *)

\* The order in which the loops over map.chunks visit the cells: chunk by chunk in
\* insertion order, then row by row (y), then along the row (x).
ScanKey(ch, p) ==
    (IndexOf(ch, ChunkOf(p)) * CHUNK_SIZE + LocalOf(p)[2]) * CHUNK_SIZE + LocalOf(p)[1]

RECURSIVE SortByScan(_, _)
SortByScan(ch, S) ==
    IF S = {} THEN <<>>
    ELSE LET first == CHOOSE p \in S : \A q \in S : ScanKey(ch, p) <= ScanKey(ch, q)
         IN <<first>> \o SortByScan(ch, S \ {first})

ScanOrder(m, ch) == SortByScan(ch, Cells(m, ch))

\* createNode: the targets of the raw one-cell node of cell p, one entry for each
\* offset of its shape that leads to a non-empty cell, in table order.
RawTargets(m, ch, p) ==
    LET offs == CreateNodeOffsets(m[p].arrowType)
        all  == [i \in 1..Len(offs) |->
                    AddTargetCell(m, ch, ChunkOf(p), m[p], LocalOf(p), offs[i])]
    IN SelectSeq(all, LAMBDA t : t # <<>>)

\* addTargetNode pushes the node onto target.sources once per target entry: the
\* length of the sources list of the raw node of cell q.
RawSourceCount(m, ch, q) ==
    LET RECURSIVE Go(_)
        Go(S) == IF S = {} THEN 0
                 ELSE LET p == CHOOSE x \in S : TRUE
                      IN Count(RawTargets(m, ch, p), q) + Go(S \ {p})
    IN Go(Cells(m, ch))

\* createNodes: the raw graph, one node of size 1 for each non-empty cell.
CreateNodes(m, ch) ==
    [p \in Cells(m, ch) |->
        [type |-> m[p].medalType, size |-> 1, targets |-> RawTargets(m, ch, p),
         nsources |-> RawSourceCount(m, ch, p)]]

\* createNode and addTargetNode call by call. The state: the raw node made for each
\* cell so far (arrow.originalNode) with its targets and sources, and the number of
\* LogicNode objects made.
RawInit == [raw |-> << >>, made |-> 0]

\* The end of addTargetNode: node.targets.push(target), target.sources.push(node).
RawLink(rs, p, t) ==
    IF t \in DOMAIN rs.raw
    THEN [rs EXCEPT !.raw[p].targets = Append(@, t), !.raw[t].sources = Append(@, p)]
    ELSE rs

\* createNode(chunk, x, y) for the cell at p: nothing for an empty cell, the node
\* made before when there is one, otherwise a new node and one addTargetNode for
\* each offset of the shape, each of which calls createNode for the cell it finds.
RECURSIVE CreateNode(_, _, _, _)
CreateNode(rs, m, ch, p) ==
    IF MapGetArrow(m, ch, p).arrowType = 0 THEN rs
    ELSE IF p \in DOMAIN rs.raw THEN rs
    ELSE
    LET offs == CreateNodeOffsets(m[p].arrowType)
        RECURSIVE Each(_, _)
        Each(r, i) ==
            IF i > Len(offs) THEN r
            ELSE LET rb == AddTargetRebase(ch, ChunkOf(p), AddTargetMove(m[p], LocalOf(p), offs[i]))
                 IN IF rb.chunk = << >> THEN Each(r, i + 1)
                    ELSE Each(RawLink(CreateNode(r, m, ch, WorldOf(rb.chunk, rb.local)),
                                      p, WorldOf(rb.chunk, rb.local)), i + 1)
    IN Each([raw |-> (p :> [type |-> m[p].medalType, size |-> 1,
                            targets |-> << >>, sources |-> << >>]) @@ rs.raw,
             made |-> rs.made + 1], 1)

\* The loop of createNodes over the cells.
RECURSIVE CreateAll(_, _, _, _, _)
CreateAll(rs, m, ch, order, i) ==
    IF i > Len(order) THEN rs
    ELSE IF order[i] \in DOMAIN rs.raw THEN CreateAll(rs, m, ch, order, i + 1)
    ELSE CreateAll(CreateNode(rs, m, ch, order[i]), m, ch, order, i + 1)

\* The state simplifyNode works on: the node heap, this.simplifiedNodes (raw node ->
\* compiled node), this.nodes and the offset field of every cell.
SimplifyInit(m, ch) ==
    [pl |-> << >>, simp |-> << >>, live |-> {}, off |-> [p \in Cells(m, ch) |-> 0]]

\* Fuse leaving the offsets of the target's cells as they were.
Fuse_KeepOffsets(st, raw, id, tid) ==
    [st EXCEPT
       !.live = @ \ {tid},
       !.pl[id] = [ResizeNode(@, raw.size + st.pl[tid].size) EXCEPT
                      !.arrows = @ \o st.pl[tid].arrows,
                      !.targets = @ \o st.pl[tid].targets]]

\* Fuse leaving the history of the node at its old capacity.
Fuse_NoResize(st, raw, id, tid) ==
    [st EXCEPT
       !.live = @ \ {tid},
       !.pl[id] = [@ EXCEPT !.size = raw.size + st.pl[tid].size,
                            !.arrows = @ \o st.pl[tid].arrows,
                            !.targets = @ \o st.pl[tid].targets],
       !.off = [p \in DOMAIN @ |->
                   IF p \in Range(st.pl[tid].arrows) THEN @[p] + raw.size ELSE @[p]]]

\* The fusion of simplifyNode: the compiled target leaves this.nodes, the node is
\* resized and takes the target's cells and targets, the cells' offsets move up.
Fuse(st, raw, id, tid) ==
    LET n == st.pl[id]
        t == st.pl[tid]
        grown == ResizeNode(n, raw.size + t.size)
    IN [st EXCEPT
          !.live = @ \ {tid},
          !.pl[id] = [grown EXCEPT !.arrows = @ \o t.arrows, !.targets = @ \o t.targets],
          !.off = [p \in DOMAIN @ |-> IF p \in Range(t.arrows) THEN @[p] + raw.size ELSE @[p]]]

\* PushTarget overwriting the list instead of appending to it.
PushTarget_Overwrite(st, id, tid) == [st EXCEPT !.pl[id].targets = <<tid>>]

\* simplified.targets.push(simplifiedTarget).
PushTarget(st, id, tid) == [st EXCEPT !.pl[id].targets = Append(@, tid)]

\* CanFuse without the test that the target has logic function 0.
CanFuse_AnyType(rawTarget, simplifiedTarget) ==
    rawTarget.nsources = 1 /\ simplifiedTarget.ready

\* CanFuse without the test that the target has a single source.
CanFuse_AnySources(rawTarget, simplifiedTarget) ==
    rawTarget.type = 0 /\ simplifiedTarget.ready

\* CanFuse without the test that the compiled target is complete.
CanFuse_NotReady(rawTarget, simplifiedTarget) ==
    rawTarget.type = 0 /\ rawTarget.nsources = 1

\* The test that decides whether the single target is fused into the node.
CanFuse(rawTarget, simplifiedTarget) ==
    rawTarget.type = 0 /\ rawTarget.nsources = 1 /\ simplifiedTarget.ready

\* simplifyNode(raw node of cell p): the state afterwards and the compiled node.
RECURSIVE SimplifyNode(_, _, _)
SimplifyNode(st, raws, p) ==
    IF p \in DOMAIN st.simp THEN [st |-> st, id |-> st.simp[p]]
    ELSE
    LET id  == NewId(st.pl)
        raw == raws[p]
        st1 == [st EXCEPT
                  !.pl = Alloc(@, NewNode(<<p>>, raw.type, raw.size)),
                  !.simp = (p :> id) @@ @,
                  !.live = @ \cup {id}]
        RECURSIVE Each(_, _)
        Each(s, i) == IF i > Len(raw.targets) THEN s
                      ELSE LET r == SimplifyNode(s, raws, raw.targets[i])
                           IN Each(PushTarget(r.st, id, r.id), i + 1)
        st2 == IF Len(raw.targets) = 1
               THEN LET r == SimplifyNode(st1, raws, raw.targets[1])
                    IN IF CanFuse(raws[raw.targets[1]], r.st.pl[r.id])
                       THEN Fuse(r.st, raw, id, r.id)
                       ELSE PushTarget(r.st, id, r.id)
               ELSE Each(st1, 1)
    IN [st |-> [st2 EXCEPT !.pl[id].ready = TRUE], id |-> id]

\* The loop of simplifyNodes over the cells.
RECURSIVE SimplifyAll(_, _, _, _)
SimplifyAll(st, raws, order, i) ==
    IF i > Len(order) THEN st
    ELSE IF order[i] \in DOMAIN st.simp THEN SimplifyAll(st, raws, order, i + 1)
    ELSE SimplifyAll(SimplifyNode(st, raws, order[i]).st, raws, order, i + 1)

\* The last loop of simplifyNodes: every live node, in insertion order, pushes
\* itself onto the sources of each of its targets.
RECURSIVE RebuildSources(_, _)
RebuildSources(pl, S) ==
    IF S = {} THEN pl
    ELSE LET n == CHOOSE x \in S : \A y \in S : x <= y
             RECURSIVE Push(_, _)
             Push(q, i) == IF i > Len(pl[n].targets) THEN q
                           ELSE Push([q EXCEPT ![pl[n].targets[i]].sources = Append(@, n)], i + 1)
         IN RebuildSources(Push(pl, 1), S \ {n})

\* The nodes still referenced from the live set or from a cell: the others are
\* garbage and leave the heap.
RECURSIVE Reach(_, _)
Reach(pl, S) ==
    LET more == S \cup UNION {Range(pl[n].targets) \cup Range(pl[n].sources) : n \in S \cap DOMAIN pl}
    IN IF more = S THEN S ELSE Reach(pl, more)

Collect(pl, m, live, arr) ==
    LET keep == Reach(pl, live \cup arr \cup {m[p].node : p \in DOMAIN m}) \cap DOMAIN pl
    IN [n \in keep |-> pl[n]]

\* The node and offset fields simplifyNode leaves on the cells (arrow.node is set when
\* the cell's one-cell node is made and again when its node is fused into another).
WithNodes(m, ch, st, pl) ==
    [p \in DOMAIN m |->
        IF p \in Cells(m, ch) /\ \E n \in st.live : p \in Range(pl[n].arrows)
        THEN [m[p] EXCEPT
                !.node = CHOOSE n \in st.live : p \in Range(pl[n].arrows),
                !.offset = st.off[p]]
        ELSE m[p]]

\* What simplifyNodes leaves behind: the cells, the node heap and this.nodes.
Compiled(m2, pl, live) == [map |-> m2, pool |-> Collect(pl, m2, live, {}), nodes |-> live]

SimplifyLinked(m, ch, st, pl) == Compiled(WithNodes(m, ch, st, pl), pl, st.live)

\* simplifyNodes: the loop over the cells, then the loop that rebuilds the sources.
SimplifyNodes(m, ch) ==
    SimplifyLinked(m, ch, SimplifyAll(SimplifyInit(m, ch), CreateNodes(m, ch), ScanOrder(m, ch), 1),
                   RebuildSources(
                       SimplifyAll(SimplifyInit(m, ch), CreateNodes(m, ch), ScanOrder(m, ch), 1).pl,
                       SimplifyAll(SimplifyInit(m, ch), CreateNodes(m, ch), ScanOrder(m, ch), 1).live))

----------------------------------------------------------------------------
(* NodeRestructuring (logic/node-restructuring, modelled from section 4.5). The    *)
(* operations work on a graph g = [map, pool, nodes]: the cells, the node heap and *)
(* the live set.                                                                   *)

ReplaceIn(s, a, b) == [i \in 1..Len(s) |-> IF s[i] = a THEN b ELSE s[i]]

\* The cells of the graph that node n holds from offset k on move to node m.
MoveCells(m0, moved, m, k) ==
    [p \in DOMAIN m0 |->
        IF p \in moved THEN [m0[p] EXCEPT !.node = m, !.offset = @ - k] ELSE m0[p]]

\* The back half of node n cut at offset k: the cells from k on with their history
\* entries, the edges to the downstream nodes, and the front half as only source.
BackHalf(n, node, k) ==
    [NewNode(SubSeq(node.arrows, k + 1, node.size), 0, node.size - k) EXCEPT
        !.ready = TRUE,
        !.signals = SubSeq(node.signals, k + 1, node.size),
        !.targets = node.targets,
        !.sources = <<n>>]

\* The front half: the cells before k with their history entries, feeding the back half.
FrontHalf(node, n, m, k) ==
    [node EXCEPT
        !.arrows = SubSeq(@, 1, k),
        !.size = k,
        !.signals = SubSeq(@, 1, k),
        !.targets = <<m>>,
        !.sources = ReplaceIn(@, n, m)]

SplitAt(g, n, k, m) ==
    [map |-> MoveCells(g.map, Range(SubSeq(g.pool[n].arrows, k + 1, g.pool[n].size)), m, k),
     pool |-> [i \in DOMAIN g.pool \cup {m} |->
                 IF i = n THEN FrontHalf(g.pool[n], n, m, k)
                 ELSE IF i = m THEN BackHalf(n, g.pool[n], k)
                 ELSE [g.pool[i] EXCEPT !.sources = ReplaceIn(@, n, m)]],
     nodes |-> g.nodes \cup {m}]

\* CanSplit letting a cut at offset 0 through, which leaves a front node of no cells.
CanSplit_AtZero(g, n, k) == n \in g.nodes /\ n \in DOMAIN g.pool /\ k >= 0 /\ k < g.pool[n].size

\* A cut needs a live node and an offset strictly inside it; at offset 0 nothing is cut.
CanSplit(g, n, k) == n \in g.nodes /\ n \in DOMAIN g.pool /\ k > 0 /\ k < g.pool[n].size

\* splitNode(nodes, node, offset): the graph afterwards ...
SplitNode(g, n, k) == IF CanSplit(g, n, k) THEN SplitAt(g, n, k, NewId(g.pool)) ELSE g

\* ... and the second node it returns, the one that starts with the cell at offset.
SplitBack(g, n, k) == IF CanSplit(g, n, k) THEN NewId(g.pool) ELSE n

\* updateNode(nodes, node, fn): the first cell is isolated, then the function is set.
UpdateNode(g, n, fn) ==
    IF n \in g.nodes /\ n \in DOMAIN g.pool
    THEN [SplitNode(g, n, 1) EXCEPT !.pool[n].type = fn]
    ELSE g

\* The first cell of node n leaves it: the cells behind it are taken by a new node m
\* at offsets counted from 0, with their history entries and the edges to the
\* downstream nodes; the edges into the node went to the cell that leaves, and node
\* n leaves the live set.
DropHeadTo(g, n, m) ==
    [map |-> MoveCells(g.map, Range(Tail(g.pool[n].arrows)), m, 1),
     pool |-> [i \in DOMAIN g.pool \cup {m} |->
                 IF i = m
                 THEN [g.pool[n] EXCEPT !.arrows = Tail(@), !.size = @ - 1, !.signals = Tail(@),
                                        !.type = 0, !.sources = <<>>,
                                        !.targets = Without(@, n)]
                 ELSE IF i = n
                 THEN [g.pool[n] EXCEPT !.targets = <<>>, !.sources = <<>>]
                 ELSE [g.pool[i] EXCEPT !.targets = Without(@, n),
                                        !.sources = ReplaceIn(@, n, m)]],
     nodes |-> (g.nodes \ {n}) \cup {m}]

DropHead(g, n) == DropHeadTo(g, n, NewId(g.pool))

\* Node n leaves the graph with all its edges.
DeleteNode(g, n) ==
    [g EXCEPT
        !.nodes = @ \ {n},
        !.pool = [i \in DOMAIN @ |->
                    IF i = n THEN [@[n] EXCEPT !.targets = <<>>, !.sources = <<>>]
                    ELSE [@[i] EXCEPT !.targets = Without(@, n), !.sources = Without(@, n)]]]

\* The sole cell of node n leaves: a node with one source and one target has them
\* reconnected directly before it goes.
ShortCircuit(g, n) ==
    IF /\ Len(g.pool[n].sources) = 1 /\ Len(g.pool[n].targets) = 1
       /\ g.pool[n].sources[1] # n /\ g.pool[n].targets[1] # n
    THEN [g EXCEPT
            !.pool[g.pool[n].sources[1]].targets = ReplaceIn(@, n, g.pool[n].targets[1]),
            !.pool[g.pool[n].targets[1]].sources = ReplaceIn(@, n, g.pool[n].sources[1])]
    ELSE g

\* The cell at the head of node n leaves.
SpliceHead(g, n) == IF g.pool[n].size = 1 THEN DeleteNode(g, n) ELSE DropHead(g, n)

\* spliceNode(nodes, node, offset): the cell at offset leaves the node. A node of one
\* cell is deleted; otherwise the node is cut before the cell and the cell leaves the
\* back half, which keeps the edges to the downstream nodes.
SpliceNode(g, n, k) ==
    IF ~(n \in g.nodes /\ n \in DOMAIN g.pool) THEN g
    ELSE IF k < 0 \/ k >= g.pool[n].size THEN g
    ELSE IF g.pool[n].size = 1 THEN DeleteNode(ShortCircuit(g, n), n)
    ELSE SpliceHead(SplitNode(g, n, k), SplitBack(g, n, k))

\* AddEdge recording the edge at its source only.
AddEdge_OneWay(g, a, b) == [g EXCEPT !.pool[a].targets = Append(@, b)]

\* An edge from node a to node b: b joins the targets of a, a the sources of b.
AddEdge(g, a, b) ==
    [[g EXCEPT !.pool[a].targets = Append(@, b)] EXCEPT !.pool[b].sources = Append(@, a)]

\* One downstream target (node t, offset j) of the new node x: a target inside a run
\* is cut off the cells before it, then the edge is added.
LinkTarget(g, x, t, j) == AddEdge(SplitNode(g, t, j), x, SplitBack(g, t, j))

RECURSIVE LinkTargets(_, _, _, _)
LinkTargets(g, x, targets, i) ==
    IF i > Len(targets) THEN g
    ELSE LinkTargets(LinkTarget(g, x, targets[i][1], targets[i][2]), x, targets, i + 1)

RECURSIVE LinkSources(_, _, _, _)
LinkSources(g, x, sources, i) ==
    IF i > Len(sources) THEN g
    ELSE LinkSources(AddEdge(g, sources[i], x), x, sources, i + 1)

\* insertNode(nodes, node, targets, sources): the one-cell node x joins the live set
\* with edges to its targets (node, offset) and from its sources (nodes).
InsertNode(g, x, targets, sources) ==
    [LinkSources(LinkTargets(g, x, targets, 1), x, sources, 1) EXCEPT !.nodes = @ \cup {x}]

----------------------------------------------------------------------------
(* The handlers of the simulation. *)

\* start(): createNodes, then simplifyNodes, which ends with
\* this.nodeArray = Array.from(this.nodes).
Start(m, ch) ==
    LET c == SimplifyNodes(m, ch)
    IN [map |-> c.map, pool |-> c.pool, nodes |-> c.nodes, nodeArray |-> c.nodes]

\* onClick on the cell at p with the selector at sys: toggles the CA flag of the cell
\* or the history entry of its node.
OnClick(sys, m, pl, p) ==
    IF sys = 0
    THEN [map |-> [m EXCEPT ![p].active = ~@], pool |-> pl]
    ELSE [map |-> m,
          pool |-> IF m[p].node \in DOMAIN pl
                   THEN [pl EXCEPT ![m[p].node].signals =
                            SignalsSet(@, m[p].offset, ~SignalsAt(@, m[p].offset))]
                   ELSE pl]

\* What the renderer shows for the cell at p under the node model (draw).
NodeShown(m, pl, p) ==
    m[p].node \in DOMAIN pl /\ SignalsAt(pl[m[p].node].signals, m[p].offset)

\* One record of the history: the signal count each cell's node received in the tick
\* when the cell heads it, and the two models' view of each cell after the tick.
LogEntry(m, pl) ==
    [p \in {q \in DOMAIN m : m[q].arrowType > 0} |->
        [ca |-> m[p].active,
         shown |-> NodeShown(m, pl, p),
         received |-> IF m[p].node \in DOMAIN pl /\ m[p].offset = 0
                      THEN pl[m[p].node].lastSignalCount ELSE 0,
         size |-> IF m[p].node \in DOMAIN pl THEN pl[m[p].node].size ELSE 0]]

Logged(l, e) == IF l.on THEN [l EXCEPT !.h = Append(@, e)] ELSE l

\* update() with the selector at 0: one tick of the CA model.
TickCA(cap) ==
    /\ ticks < cap
    /\ updateSystem = 0
    /\ map' = UpdateCA(map, chunks)
    /\ ticks' = ticks + 1
    /\ log' = Logged(log, LogEntry(map', pool))
    /\ UNCHANGED <<chunks, pool, nodes, nodeArray, updateSystem, edits>>

\* update() with the selector at 1: one tick of the node model.
TickNodes(cap) ==
    /\ ticks < cap
    /\ updateSystem = 1
    /\ pool' = UpdateNodes(pool, nodeArray)
    /\ ticks' = ticks + 1
    /\ log' = Logged(log, LogEntry(map, pool'))
    /\ UNCHANGED <<map, chunks, nodes, nodeArray, updateSystem, edits>>

\* Update running both simulators whatever the selector.
Update_Both(sys, m, ch, pl, arr) == [map |-> UpdateCA(m, ch), pool |-> UpdateNodes(pl, arr)]

\* update(): updateCA with the selector at 0, updateNodes otherwise.
Update(sys, m, ch, pl, arr) ==
    IF sys = 0 THEN [map |-> UpdateCA(m, ch), pool |-> pl]
    ELSE [map |-> m, pool |-> UpdateNodes(pl, arr)]

\* One tick under the current selector.
Tick(cap) ==
    /\ ticks < cap
    /\ map' = Update(updateSystem, map, chunks, pool, nodeArray).map
    /\ pool' = Update(updateSystem, map, chunks, pool, nodeArray).pool
    /\ ticks' = ticks + 1
    /\ log' = Logged(log, LogEntry(map', pool'))
    /\ UNCHANGED <<chunks, nodes, nodeArray, updateSystem, edits>>

\* onKeyDown with F5: the selector moves to the other simulator.
ToggleSystem ==
    /\ updateSystem' = (updateSystem + 1) % 2
    /\ UNCHANGED <<map, chunks, pool, nodes, nodeArray, ticks, edits, log>>

\* The two models side by side: the same tick run by updateCA and by updateNodes.
TickBoth(cap) ==
    /\ ticks < cap
    /\ map' = UpdateCA(map, chunks)
    /\ pool' = UpdateNodes(pool, nodeArray)
    /\ ticks' = ticks + 1
    /\ log' = Logged(log, LogEntry(map', pool'))
    /\ UNCHANGED <<chunks, nodes, nodeArray, updateSystem, edits>>

\* onClick on a non-empty cell under the current selector.
Click(p) ==
    /\ MapGetArrow(map, chunks, p).arrowType # 0
    /\ LET r == OnClick(updateSystem, map, pool, p)
       IN map' = r.map /\ pool' = r.pool
    /\ UNCHANGED <<chunks, nodes, nodeArray, updateSystem, ticks, edits, log>>

\* The two models side by side: the same click given to both.
ClickBoth(p) ==
    /\ MapGetArrow(map, chunks, p).arrowType # 0
    /\ map' = OnClick(0, map, pool, p).map
    /\ pool' = OnClick(1, map, pool, p).pool
    /\ UNCHANGED <<chunks, nodes, nodeArray, updateSystem, ticks, edits, log>>

\* The graph the edit handlers work on.
Graph == [map |-> map, pool |-> pool, nodes |-> nodes]

\* map.getOrCreateArrow(x, y): the chunk of the position is created when missing.
GetOrCreateChunks(ch, p) == IF ChunkOf(p) \in Range(ch) THEN ch ELSE Append(ch, ChunkOf(p))

\* arrow.merge(other): the cell takes the shape, rotation, mirror flag and logic
\* function of the selected arrow and starts inactive.
Merge(target, a) == NewArrow(a.arrowType, a.rotation, a.flipped, a.medalType)

\* map.removeArrow(x, y): the cell is reset to empty.
RemoveArrow(g, p) == [g EXCEPT !.map[p] = EmptyArrow]

\* PlaceChunk with the quotient truncated toward zero and no correction below zero.
PlaceChunk_Trunc(p) == <<TruncDiv(p[1], 16), TruncDiv(p[2], 16)>>

\* The chunk index the placement computes: ~~((x + nX) / 16) - nX with nX = +(x < 0).
PlaceChunk(p) ==
    <<TruncDiv(p[1] + (IF p[1] < 0 THEN 1 ELSE 0), 16) - (IF p[1] < 0 THEN 1 ELSE 0),
      TruncDiv(p[2] + (IF p[2] < 0 THEN 1 ELSE 0), 16) - (IF p[2] < 0 THEN 1 ELSE 0)>>

PlaceLocal(p) == <<p[1] - PlaceChunk(p)[1] * CHUNK_SIZE, p[2] - PlaceChunk(p)[2] * CHUNK_SIZE>>

\* PlaceSpliced without the splice.
PlaceSpliced_NoSplice(g, p) == g

\* Placement over an occupied cell first splices the old cell out of its node.
PlaceSpliced(g, p) ==
    IF g.map[p].arrowType > 0 THEN SpliceNode(g, g.map[p].node, g.map[p].offset) ELSE g

\* The merge and the new one-cell node of the placed cell.
PlaceNode(g, p, a) ==
    [g EXCEPT
        !.map[p] = [Merge(@, a) EXCEPT !.node = NewId(g.pool), !.offset = 0],
        !.pool = Alloc(@, NewNode(<<p>>, a.medalType, 1))]

\* getTargetArrows(...).map(arrow => [arrow.node, arrow.offset]).
PlaceTargets(g, ch, p) ==
    [i \in 1..Len(GetTargetArrows(g.map, ch, PlaceChunk(p), g.map[p], PlaceLocal(p))) |->
        <<g.map[GetTargetArrows(g.map, ch, PlaceChunk(p), g.map[p], PlaceLocal(p))[i]].node,
          g.map[GetTargetArrows(g.map, ch, PlaceChunk(p), g.map[p], PlaceLocal(p))[i]].offset>>]

\* getSourceArrows(...).map(arrow => arrow.node): the offsets of the source cells in
\* their nodes are not passed on.
PlaceSources(g, ch, p) ==
    [i \in 1..Len(GetSourceArrows(g.map, ch, PlaceChunk(p), g.map[p], PlaceLocal(p))) |->
        g.map[GetSourceArrows(g.map, ch, PlaceChunk(p), g.map[p], PlaceLocal(p))[i]].node]

PlaceInserted(g, ch, p) ==
    InsertNode(g, g.map[p].node, PlaceTargets(g, ch, p), PlaceSources(g, ch, p))

\* The body of the placement loop for one selected arrow a at position p.
PlaceArrow(g, ch, p, a) == PlaceInserted(PlaceNode(PlaceSpliced(g, p), p, a), ch, p)

\* PlaceMedal setting the function on the cell's node as it is, without the split.
PlaceMedal_NoSplit(g, p, md) ==
    [g EXCEPT !.map[p].medalType = md, !.pool[g.map[p].node].type = md]

\* Medal placement: the function is set on the cell, its node is cut before the cell
\* and updateNode is given the node that starts with the cell.
PlaceMedal(g, p, md) ==
    UpdateNode(SplitNode([g EXCEPT !.map[p].medalType = md], g.map[p].node, g.map[p].offset),
               SplitBack(g, g.map[p].node, g.map[p].offset), md)

\* ClearMedal resetting the function of the cell and leaving that of its node.
ClearMedal_CellOnly(g, p) == [g EXCEPT !.map[p].medalType = 0]

\* R on a cell with a logic function: the function is reset, the cell stays.
ClearMedal(g, p) == UpdateNode([g EXCEPT !.map[p].medalType = 0], g.map[p].node, 0)

\* RemoveCell splicing at offset 0 whatever the offset of the cell.
RemoveCell_HeadOffset(g, p) == RemoveArrow(SpliceNode(g, g.map[p].node, 0), p)

\* removeArrow and spliceNode for the cell at p (the handler holds the cell's node and
\* offset, so the order of the two calls makes no difference).
RemoveCell(g, p) == RemoveArrow(SpliceNode(g, g.map[p].node, g.map[p].offset), p)

\* The loop of Backspace and cut over the highlighted positions.
RECURSIVE RemoveCells(_, _, _)
RemoveCells(g, hl, i) ==
    IF i > Len(hl) THEN g ELSE RemoveCells(RemoveCell(g, hl[i]), hl, i + 1)

\* Edited without the rebuild of nodeArray.
Edited_StaleArray(g) ==
    /\ map' = g.map
    /\ pool' = Collect(g.pool, g.map, g.nodes, nodeArray)
    /\ nodes' = g.nodes
    /\ nodeArray' = nodeArray
    /\ edits' = edits + 1
    /\ UNCHANGED <<updateSystem, ticks, log>>

\* The end of every edit handler: this.nodeArray = Array.from(this.nodes).
Edited(g) ==
    /\ map' = g.map
    /\ pool' = Collect(g.pool, g.map, g.nodes, g.nodes)
    /\ nodes' = g.nodes
    /\ nodeArray' = g.nodes
    /\ edits' = edits + 1
    /\ UNCHANGED <<updateSystem, ticks, log>>

\* updatePlayerInput with the mouse down at p and the arrow a selected.
Place(p, a) ==
    /\ edits < MaxEdits
    /\ chunks' = GetOrCreateChunks(chunks, p)
    /\ \E g \in {PlaceArrow(Graph, chunks', p, a)} : Edited(g)

\* updatePlayerInput with the mouse down at p and the medal md selected.
Medal(p, md) ==
    /\ edits < MaxEdits
    /\ md # 0
    /\ MapGetArrow(map, chunks, p).arrowType > 0
    /\ \E g \in {PlaceMedal(Graph, p, md)} : Edited(g)
    /\ UNCHANGED chunks

\* updatePlayerInput with R pressed over the cell at p.
RemoveR(p) ==
    /\ edits < MaxEdits
    /\ MapGetArrow(map, chunks, p).arrowType > 0
    /\ \E g \in {IF map[p].medalType # 0 THEN ClearMedal(Graph, p) ELSE RemoveCell(Graph, p)} :
          Edited(g)
    /\ UNCHANGED chunks

\* onKeyDown with Backspace and the cells hl highlighted.
Backspace(hl) ==
    /\ edits < MaxEdits
    /\ Len(hl) > 0
    /\ \E g \in {RemoveCells(Graph, hl, 1)} : Edited(g)
    /\ UNCHANGED chunks

\* onCut with the cells hl highlighted (the copy to the clipboard changes nothing here).
Cut(hl) ==
    /\ edits < MaxEdits
    /\ Len(hl) > 0
    /\ \E g \in {RemoveCells(Graph, hl, 1)} : Edited(g)
    /\ UNCHANGED chunks

\* The state start() leaves for the grid m with the chunks ch, with the selector at
\* sys (F5 toggles it) and the history kept or not.
Started(m, ch, sys, logging) ==
    \E s \in {Start(m, ch)} :
       /\ map = s.map
       /\ chunks = ch
       /\ pool = s.pool
       /\ nodes = s.nodes
       /\ nodeArray = s.nodeArray
       /\ updateSystem = sys
       /\ ticks = 0
       /\ edits = 0
       /\ log = [on |-> logging, h |-> << >>]

\* Every cell shows the same state in the two models.
Agree ==
    \A p \in Cells(map, chunks) : NodeShown(map, pool, p) = map[p].active

----------------------------------------------------------------------------
(* Grids. *)

Box(x0, x1, y0, y1) == {<<x, y>> : x \in x0..x1, y \in y0..y1}

\* The grid over the window W holding the cells of f, empty elsewhere.
Grid(W, f) == [p \in W |-> IF p \in DOMAIN f THEN f[p] ELSE EmptyArrow]

\* The chunks a grid has after loading: those that hold a cell, in any order
\* (map.chunks keeps insertion order).
Perms(S) ==
    {s \in [1..Cardinality(S) -> S] : \A i, j \in 1..Cardinality(S) : i # j => s[i] # s[j]}

ChunkOrders(m) == Perms({ChunkOf(p) : p \in {q \in DOMAIN m : m[q].arrowType > 0}})

\* Rotations: 0 points up (y - 1), 1 left, 2 down, 3 right.
Up == 0
Left == 1
Down == 2
Right == 3

----------------------------------------------------------------------------
(* Specification of the activation functions: a cell with every logic function and *)
(* four neighbours pointing at it, each active or not.                             *)

PlusCentre == <<16, 1>>
PlusArms == {<<15, 1>>, <<17, 1>>, <<16, 0>>, <<16, 2>>}

\* The arm at p: a straight arrow pointing at the centre.
ArmArrow(p) ==
    NewArrow(1, CASE p = <<15, 1>> -> Right [] p = <<17, 1>> -> Left
                  [] p = <<16, 0>> -> Down [] p = <<16, 2>> -> Up, FALSE, 0)

\* The centre: a shape-6 arrow (it signals two cells ahead, outside the window).
PlusGrid(fn) ==
    Grid(PlusArms \cup {PlusCentre},
         [p \in PlusArms \cup {PlusCentre} |->
             IF p = PlusCentre THEN NewArrow(6, Up, FALSE, fn) ELSE ArmArrow(p)])

InitAct == \E fn \in 0..6 : \E ch \in ChunkOrders(PlusGrid(fn)) : Started(PlusGrid(fn), ch, 0, FALSE)

NextAct ==
    \/ TickBoth(MaxTicks)
    \/ \E p \in DOMAIN map : ClickBoth(p)

SpecAct == InitAct /\ [][NextAct]_vars

----------------------------------------------------------------------------
(* Specification of compiled grids: every grid of at most MaxCells cells over a   *)
(* window of two by two cells that straddles two chunks, compiled by start() and   *)
(* then run by both simulators side by side.                                       *)

CompileWindow == Box(CHUNK_SIZE - 1, CHUNK_SIZE, 0, 1)

\* The cells a grid is built from: straight arrows in the four directions and the
\* four-way arrow, plain or with the NOT medal.
Palette ==
    {NewArrow(1, r, FALSE, md) : r \in 0..3, md \in {0, 2}}
        \cup {NewArrow(5, Up, FALSE, md) : md \in {0, 2}}

CompileGrids ==
    {g \in [CompileWindow -> Palette \cup {EmptyArrow}] :
        Cardinality({p \in CompileWindow : g[p].arrowType > 0}) <= MaxCells}

InitCompile == \E g \in CompileGrids : \E ch \in ChunkOrders(g) : Started(g, ch, 0, FALSE)

\* The clicks set the initial cell states; the ticks follow.
NextCompile ==
    \/ TickBoth(MaxTicks)
    \/ \E p \in DOMAIN map : ticks = 0 /\ ClickBoth(p)

SpecCompile == InitCompile /\ [][NextCompile]_vars

\* The same grids, and a four-way arrow with a plain straight arrow on each of its
\* four sides, compiled and run without clicks: the structure of the compiled graph.
BranchGrids ==
    {Grid(PlusArms \cup {PlusCentre},
          [p \in PlusArms \cup {PlusCentre} |->
              IF p = PlusCentre THEN NewArrow(5, Up, FALSE, 0) ELSE arms[p]]) :
        arms \in [PlusArms -> {a \in Palette : a.arrowType = 1 /\ a.medalType = 0}]}

InitStructure ==
    \E g \in CompileGrids \cup BranchGrids : \E ch \in ChunkOrders(g) : Started(g, ch, 0, FALSE)

NextStructure == TickBoth(MaxTicks)

SpecStructure == InitStructure /\ [][NextStructure]_vars

----------------------------------------------------------------------------
(* Specification of a delay line under the node model: a two-way arrow X feeds a   *)
(* row of S plain straight arrows that ends in a cell with the XOR function. X has *)
(* two targets and the last cell is not plain, so the row compiles to one node.    *)

PulseSource == <<14, 0>>
PulseHead == <<15, 0>>

PulseOut(S) == <<PulseHead[1] + S, 0>>

PulseGrid(S) ==
    [p \in {<<x, 0>> : x \in (PulseSource[1] - 1)..PulseOut(S)[1]} |->
        CASE p = <<PulseSource[1] - 1, 0>> -> NewArrow(1, Up, FALSE, 0)
          [] p = PulseSource -> NewArrow(2, Up, FALSE, 0)
          [] p = PulseOut(S) -> NewArrow(1, Right, FALSE, 4)
          [] OTHER -> NewArrow(1, Right, FALSE, 0)]

PulseTicks == MaxTicks + MaxChain

InitPulse ==
    \E S \in 1..MaxChain : \E ch \in ChunkOrders(PulseGrid(S)) : Started(PulseGrid(S), ch, 1, TRUE)

\* Every click on X makes its node deliver once in the next tick.
NextPulse ==
    \/ TickNodes(PulseTicks)
    \/ Click(PulseSource)

SpecPulse == InitPulse /\ [][NextPulse]_vars

----------------------------------------------------------------------------
(* Specification of the selector: the delay line run by one simulator at a time,   *)
(* with F5 pressed and cells clicked at any time.                                  *)

InitSelect ==
    \E S \in 1..MaxChain : \E sys \in {0, 1} : \E ch \in ChunkOrders(PulseGrid(S)) :
        Started(PulseGrid(S), ch, sys, FALSE)

NextSelect ==
    \/ Tick(MaxTicks)
    \/ ToggleSystem
    \/ Click(PulseSource)
    \/ Click(PulseHead)

SpecSelect == InitSelect /\ [][NextSelect]_vars

----------------------------------------------------------------------------
(* Specification of the straight chain: five plain straight arrows in a row that   *)
(* ends in a plain four-way arrow, run by both simulators side by side.            *)

ChainCell(k) == <<11 + k, 0>>

ChainGrid ==
    [p \in {ChainCell(k) : k \in 1..6} |->
        IF p = ChainCell(6) THEN NewArrow(5, Up, FALSE, 0) ELSE NewArrow(1, Right, FALSE, 0)]

ChainTicks == MaxTicks + MaxChain

InitChain == \E ch \in ChunkOrders(ChainGrid) : Started(ChainGrid, ch, 0, TRUE)

\* The clicks set the initial cell states; the ticks follow.
NextChain ==
    \/ TickBoth(ChainTicks)
    \/ \E p \in DOMAIN map : ticks = 0 /\ ClickBoth(p)

SpecChain == InitChain /\ [][NextChain]_vars

----------------------------------------------------------------------------
(* Specification of the edits: a row of MaxRow arrows across a chunk border with a  *)
(* free cell below its middle, compiled by start(), then edited and run by both    *)
(* simulators side by side.                                                        *)

EditRow == {<<x, 0>> : x \in (CHUNK_SIZE - 1)..(CHUNK_SIZE + MaxRow - 2)}

EditWindow == EditRow \cup {<<CHUNK_SIZE, 1>>}

\* The arrows placed: the straight arrow and the arrow that also signals to the cell
\* on its right-hand side (the cell below it in this row), both pointing along the row.
EditPalette == {NewArrow(1, Right, FALSE, 0), NewArrow(3, Right, FALSE, 0)}

EditGrids ==
    {Grid(EditWindow, f) : f \in [EditRow -> EditPalette]}

\* The sequences of one or two distinct cells of S: the highlighted cells in the
\* order they were added.
Highlights(S) == {<<p>> : p \in S} \cup {<<pq[1], pq[2]>> : pq \in {x \in S \X S : x[1] # x[2]}}

Init == \E g \in EditGrids : \E ch \in ChunkOrders(g) : Started(g, ch, 0, FALSE)

Next ==
    \/ TickBoth(MaxEditTicks)
    \/ edits = 0 /\ ticks = 0 /\ ClickBoth(<<CHUNK_SIZE - 1, 0>>)
    \/ \E p \in EditWindow : \E a \in EditPalette : Place(p, a)
    \/ \E p \in EditWindow : Medal(p, 2)
    \/ \E p \in EditWindow : RemoveR(p)
    \/ \E hl \in Highlights(Cells(map, chunks)) : Backspace(hl)
    \/ \E hl \in Highlights(Cells(map, chunks)) : Cut(hl)

Spec == Init /\ [][Next]_vars

\* The same rows with placements on free cells as the only edits.
NextPlace ==
    \/ TickBoth(MaxTicks)
    \/ edits = 0 /\ ticks = 0 /\ ClickBoth(<<CHUNK_SIZE - 1, 0>>)
    \/ \E p \in EditWindow : \E a \in EditPalette : map[p].arrowType = 0 /\ Place(p, a)

SpecPlace == Init /\ [][NextPlace]_vars

----------------------------------------------------------------------------
(* Specification of the highlight: the rows of the edits with cells added to        *)
(* this.highlightedArrows (kept in the history, in the order they were added),      *)
(* removed with R, replaced by a placement, and removed by Backspace and cut, which *)
(* work through the highlighted positions and clear them.                           *)

MaxHighlight == 2

\* onMouseMove with E and Shift held over the non-empty cell at p: its position joins
\* highlightedArrows.
Highlight(p) ==
    /\ Len(log.h) < MaxHighlight
    /\ MapGetArrow(map, chunks, p).arrowType > 0
    /\ p \notin Range(log.h)
    /\ log' = [log EXCEPT !.h = Append(@, p)]
    /\ UNCHANGED <<map, chunks, pool, nodes, nodeArray, updateSystem, ticks, edits>>

\* The end of Backspace and cut: nodeArray is rebuilt and highlightedArrows cleared.
EditedCleared(g) ==
    /\ map' = g.map
    /\ pool' = Collect(g.pool, g.map, g.nodes, g.nodes)
    /\ nodes' = g.nodes
    /\ nodeArray' = g.nodes
    /\ edits' = edits + 1
    /\ log' = [log EXCEPT !.h = << >>]
    /\ UNCHANGED <<updateSystem, ticks>>

\* onKeyDown with Backspace: the loop over highlightedArrows as it stands.
BackspaceHighlighted ==
    /\ edits < MaxEdits
    /\ Len(log.h) > 0
    /\ \E g \in {RemoveCells(Graph, log.h, 1)} : EditedCleared(g)
    /\ UNCHANGED chunks

\* onCut: the same loop (the copy to the clipboard changes nothing here).
CutHighlighted ==
    /\ edits < MaxEdits
    /\ Len(log.h) > 0
    /\ \E g \in {RemoveCells(Graph, log.h, 1)} : EditedCleared(g)
    /\ UNCHANGED chunks

NextHighlight ==
    \/ \E p \in EditWindow : Highlight(p)
    \/ \E p \in EditWindow : RemoveR(p)
    \/ \E p \in EditRow : \E a \in EditPalette : Place(p, a)
    \/ BackspaceHighlighted
    \/ CutHighlighted

SpecHighlight == Init /\ [][NextHighlight]_vars

----------------------------------------------------------------------------
(* Specification of the removal mode: rows of straight arrows with and without the *)
(* NOT function, and frames of updatePlayerInput in which the mouse is over a cell *)
(* of the window and R is held or not. Here log holds removeModeTouchedArrows      *)
(* (log.h, in insertion order) and, for the properties, the cells acted on since   *)
(* the last frame without R (log.hold) and the last frame (log.last).              *)

RemovePalette == {NewArrow(1, Right, FALSE, 0), NewArrow(1, Right, FALSE, 2)}

RemoveGrids == {Grid(EditWindow, f) : f \in [EditRow -> RemovePalette]}

NoFrame == [p |-> << >>, r |-> FALSE, live |-> FALSE, acted |-> FALSE, was |-> FALSE]

InitRemove ==
    \E g \in RemoveGrids : \E ch \in ChunkOrders(g) : \E s \in {Start(g, ch)} :
       /\ map = s.map
       /\ chunks = ch
       /\ pool = s.pool
       /\ nodes = s.nodes
       /\ nodeArray = s.nodeArray
       /\ updateSystem = 0
       /\ ticks = 0
       /\ edits = 0
       /\ log = [on |-> FALSE, h |-> << >>, hold |-> {}, last |-> NoFrame]

\* The frame acts on the cell under the mouse: the cell is non-empty, R is held and
\* the cell is not in removeModeTouchedArrows.
FrameActs(p, r) ==
    MapGetArrow(map, chunks, p).arrowType > 0 /\ r /\ p \notin Range(log.h)

\* removeModeTouchedArrows after the frame: untouched over an empty cell, cleared
\* over a non-empty cell without R, and with the cell added when the frame acted.
FrameTouched(p, r) ==
    IF MapGetArrow(map, chunks, p).arrowType = 0 THEN log.h
    ELSE IF ~r THEN << >>
    ELSE IF p \in Range(log.h) THEN log.h
    ELSE Append(log.h, p)

\* The record of the frame: the cells acted on since the last frame without R, and
\* what the frame found and did.
FrameLog(p, r) ==
    [on |-> FALSE,
     h |-> FrameTouched(p, r),
     hold |-> IF ~r THEN {} ELSE IF FrameActs(p, r) THEN log.hold \cup {p} ELSE log.hold,
     last |-> [p |-> p, r |-> r, live |-> MapGetArrow(map, chunks, p).arrowType > 0,
               acted |-> FrameActs(p, r), was |-> p \in log.hold]]

\* One frame of updatePlayerInput with the mouse over p, no selection and the mouse
\* button up; r tells whether R is held.
RemoveFrame(p, r) ==
    /\ FrameActs(p, r) => edits < MaxEdits
    /\ IF FrameActs(p, r)
       THEN \E g \in {IF map[p].medalType # 0 THEN ClearMedal(Graph, p)
                                              ELSE RemoveCell(Graph, p)} :
               /\ map' = g.map
               /\ pool' = Collect(g.pool, g.map, g.nodes, g.nodes)
               /\ nodes' = g.nodes
               /\ nodeArray' = g.nodes
               /\ edits' = edits + 1
       ELSE UNCHANGED <<map, pool, nodes, nodeArray, edits>>
    /\ log' = FrameLog(p, r)
    /\ UNCHANGED <<chunks, updateSystem, ticks>>

NextRemove == \E p \in EditWindow : \E r \in BOOLEAN : RemoveFrame(p, r)

SpecRemove == InitRemove /\ [][NextRemove]_vars

----------------------------------------------------------------------------
(* Specification of the changes in place: the rows of the edits with the cell under *)
(* the mouse turned by W, A, S, D and mirrored by F, no arrow being selected, and   *)
(* run by both simulators side by side.                                            *)

\* updatePlayerInput with W, A, S or D held over the non-empty cell at p:
\* arrow.rotation = r, and nothing else.
Rotate(p, r) ==
    /\ edits < MaxEdits
    /\ MapGetArrow(map, chunks, p).arrowType > 0
    /\ map' = [map EXCEPT ![p].rotation = r]
    /\ edits' = edits + 1
    /\ UNCHANGED <<chunks, pool, nodes, nodeArray, updateSystem, ticks, log>>

\* updatePlayerInput with F pressed over the non-empty cell at p:
\* arrow.flipped = !arrow.flipped, and nothing else.
Flip(p) ==
    /\ edits < MaxEdits
    /\ MapGetArrow(map, chunks, p).arrowType > 0
    /\ map' = [map EXCEPT ![p].flipped = ~@]
    /\ edits' = edits + 1
    /\ UNCHANGED <<chunks, pool, nodes, nodeArray, updateSystem, ticks, log>>

NextRotate ==
    \/ TickBoth(MaxEditTicks)
    \/ edits = 0 /\ ticks = 0 /\ ClickBoth(<<CHUNK_SIZE - 1, 0>>)
    \/ \E p \in EditWindow : \E r \in 0..3 : Rotate(p, r)
    \/ \E p \in EditWindow : Flip(p)

SpecRotate == Init /\ [][NextRotate]_vars

----------------------------------------------------------------------------
(* Specification of loading: the game as constructed, started with a save code in   *)
(* the URL hash, then run, with texts pasted from the clipboard. The text encoding  *)
(* (logic/save) is not part of the sources at hand: a text is modelled as the       *)
(* sequence of cell records it decodes to, with a token that does not decode.       *)

MaxText == 3
MaxLoads == 2

LoadWindow == {<<x, 0>> : x \in (CHUNK_SIZE - 1)..(CHUNK_SIZE + 1)}

CellToken(p) == [valid |-> TRUE, pos |-> p, arrow |-> NewArrow(1, Right, FALSE, 0)]

BadToken == [valid |-> FALSE, pos |-> <<0, 0>>, arrow |-> EmptyArrow]

Texts ==
    UNION {[1..k -> {CellToken(p) : p \in LoadWindow} \cup {BadToken}] : k \in 0..MaxText}

\* load(map, text): the cells are decoded in order and written into the map it is
\* given (getOrCreateArrow); a token that does not decode ends the load with an
\* exception, after the cells before it were written.
RECURSIVE Load(_, _, _, _)
Load(m, ch, text, i) ==
    IF i > Len(text) THEN [ok |-> TRUE, map |-> m, chunks |-> ch]
    ELSE IF ~text[i].valid THEN [ok |-> FALSE, map |-> m, chunks |-> ch]
    ELSE Load([m EXCEPT ![text[i].pos] = text[i].arrow],
              GetOrCreateChunks(ch, text[i].pos), text, i + 1)

\* The loads attempted so far, with their outcome (kept in the history).
LoadLogged(l, path, ok) == [l EXCEPT !.h = Append(@, [path |-> path, ok |-> ok])]

GameStarted == \E i \in 1..Len(log.h) : log.h[i].path = "start"

\* What start() leaves after load(this.map, saveCode) gave r: createNodes and
\* simplifyNodes run when load returned; its exception leaves start() before them.
StartAfterLoad(r, pl, live, arr) ==
    IF r.ok THEN Start(r.map, r.chunks)
    ELSE [map |-> r.map, pool |-> pl, nodes |-> live, nodeArray |-> arr]

\* start() with the save code text in the URL hash (the empty text: no hash, no load).
StartGame(text) ==
    /\ ~GameStarted
    /\ \E r \in {Load(map, chunks, text, 1)} :
          /\ chunks' = r.chunks
          /\ \E s \in {StartAfterLoad(r, pool, nodes, nodeArray)} :
                /\ map' = s.map
                /\ pool' = s.pool
                /\ nodes' = s.nodes
                /\ nodeArray' = s.nodeArray
          /\ log' = LoadLogged(log, "start", r.ok)
    /\ UNCHANGED <<updateSystem, ticks, edits>>

\* onPaste with the text on the clipboard: it is loaded into a new GameMap, which
\* becomes the selection when the load returns; the handler returns when it throws.
Paste(text) ==
    /\ GameStarted
    /\ Len(log.h) < MaxLoads
    /\ Len(text) > 0
    /\ log' = LoadLogged(log, "paste", Load(Grid(LoadWindow, << >>), << >>, text, 1).ok)
    /\ UNCHANGED <<map, chunks, pool, nodes, nodeArray, updateSystem, ticks, edits>>

\* The game as constructed: an empty map, no nodes.
InitLoad ==
    /\ map = Grid(LoadWindow, << >>)
    /\ chunks = << >>
    /\ pool = << >>
    /\ nodes = {}
    /\ nodeArray = {}
    /\ updateSystem = 0
    /\ ticks = 0
    /\ edits = 0
    /\ log = [on |-> FALSE, h |-> << >>]

NextLoad ==
    \/ \E text \in Texts : StartGame(text)
    \/ \E text \in Texts : Paste(text)
    \/ GameStarted /\ TickBoth(MaxTicks)
    \/ \E p \in LoadWindow : GameStarted /\ ticks = 0 /\ ClickBoth(p)

SpecLoad == InitLoad /\ [][NextLoad]_vars

----------------------------------------------------------------------------
(* Specification of the resolver: one arrow of any shape, rotation and mirror flag  *)
(* beside the corner where four chunks meet, with other cells on the ring of its    *)
(* neighbours, on the part of that ring in its own chunk, on every second cell of   *)
(* the ring at distance two, or alone; the grid is compiled by start() and the      *)
(* resolver is then asked about the arrow.                                          *)

ResolveWindow == Box(CHUNK_SIZE - 3, CHUNK_SIZE + 2, CHUNK_SIZE - 3, CHUNK_SIZE + 2)

ResolveSources == Box(CHUNK_SIZE - 1, CHUNK_SIZE, CHUNK_SIZE - 1, CHUNK_SIZE)

\* The other cells: straight arrows with logic function 1, which tells them from the
\* arrow asked about (logic function 0).
Filler == NewArrow(1, Up, FALSE, 1)

\* The cells around p at the distance k (the larger of |dx| and |dy|).
Ring(p, k) ==
    {q \in Box(p[1] - k, p[1] + k, p[2] - k, p[2] + k) :
        q[1] - p[1] \in {-k, k} \/ q[2] - p[2] \in {-k, k}}

Surroundings(p) ==
    {{},
     Ring(p, 1),
     {q \in Ring(p, 1) : ChunkOf(q) = ChunkOf(p)},
     {q \in Ring(p, 2) : (q[1] + q[2] - p[1] - p[2]) % 2 = 0},
     {q \in Ring(p, 2) : (q[1] + q[2] - p[1] - p[2]) % 2 = 1}}

ResolveGrid(p, a, S) == Grid(ResolveWindow, [q \in S \cup {p} |-> IF q = p THEN a ELSE Filler])

\* The offsets asked about: every (dx, dy) with |dx|, |dy| <= 2.
Offsets == Box(-2, 2, -2, 2)

InitResolve ==
    \E p \in ResolveSources : \E t \in 1..13 : \E r \in 0..3 : \E f \in BOOLEAN :
        \E S \in Surroundings(p) :
            Started(ResolveGrid(p, NewArrow(t, r, f, 0), S),
                    CHOOSE ch \in ChunkOrders(ResolveGrid(p, NewArrow(t, r, f, 0), S)) : TRUE,
                    0, FALSE)

\* The arrow asked about.
ResolveSource == CHOOSE p \in ResolveSources : map[p].arrowType > 0 /\ map[p].medalType = 0

\* What getArrowRelative and addTargetNode compute for the arrow at p and the offset
\* d: the moved local position, the chunk and local position after re-basing, and
\* the cell found.
ResolveEntry(m, ch, p, d) ==
    [kind |-> "offset", src |-> p, d |-> d,
     move |-> RelativeMove(m[p], LocalOf(p), d),
     amove |-> AddTargetMove(m[p], LocalOf(p), d),
     reb |-> RelativeRebase(ch, ChunkOf(p), RelativeMove(m[p], LocalOf(p), d)),
     areb |-> AddTargetRebase(ch, ChunkOf(p), AddTargetMove(m[p], LocalOf(p), d)),
     cell |-> GetArrowRelative(m, ch, ChunkOf(p), m[p], LocalOf(p), d),
     acell |-> AddTargetCell(m, ch, ChunkOf(p), m[p], LocalOf(p), d)]

\* What getTargetArrows, createNode and the sends of updateCA give for the arrow at p.
TargetsEntry(m, ch, p) ==
    [kind |-> "targets", src |-> p,
     targets |-> GetTargetArrows(m, ch, ChunkOf(p), m[p], LocalOf(p)),
     raw |-> RawTargets(m, ch, p),
     sends |-> [i \in 1..Len(SendOffsets(m[p].arrowType)) |->
                   SendSignalCell(m, ch, ChunkOf(p), m[p], LocalOf(p),
                                  SendOffsets(m[p].arrowType)[i])]]

\* getArrowRelative and addTargetNode called for the arrow with the offset d.
Resolve(d) ==
    /\ Len(log.h) = 0
    /\ log' = [log EXCEPT !.h = <<ResolveEntry(map, chunks, ResolveSource, d)>>]
    /\ UNCHANGED <<map, chunks, pool, nodes, nodeArray, updateSystem, ticks, edits>>

\* getTargetArrows and createNode called for the arrow.
Targets ==
    /\ Len(log.h) = 0
    /\ log' = [log EXCEPT !.h = <<TargetsEntry(map, chunks, ResolveSource)>>]
    /\ UNCHANGED <<map, chunks, pool, nodes, nodeArray, updateSystem, ticks, edits>>

NextResolve ==
    \/ \E d \in Offsets : Resolve(d)
    \/ Targets

SpecResolve == InitResolve /\ [][NextResolve]_vars

----------------------------------------------------------------------------
(* Specification of the reverse query: an arrow a at the corner where four chunks   *)
(* meet, compiled by start(); an arrow c of any shape, rotation and mirror flag is  *)
(* placed on one of the cells within two steps of it, and getSourceArrows is then   *)
(* asked about one of the two cells.                                                *)

InverseCell == <<CHUNK_SIZE, CHUNK_SIZE>>

InverseWindow == Box(CHUNK_SIZE - 2, CHUNK_SIZE + 2, CHUNK_SIZE - 2, CHUNK_SIZE + 2)

\* The shapes of a: one that signals ahead and the two that signal to themselves.
InverseShapes == {1, 12, 13}

\* The arrows placed beside a: every shape, rotation and mirror flag, with logic
\* function 1, which tells them from a (logic function 0).
InversePalette == {NewArrow(t, r, f, 1) : t \in 1..13, r \in 0..3, f \in BOOLEAN}

InverseGrid(a) == Grid(InverseWindow, (InverseCell :> a))

InitInverse ==
    \E t \in InverseShapes : \E r \in 0..3 : \E f \in BOOLEAN :
        Started(InverseGrid(NewArrow(t, r, f, 0)),
                CHOOSE ch \in ChunkOrders(InverseGrid(NewArrow(t, r, f, 0))) : TRUE,
                0, FALSE)

\* What getSourceArrows gives for the arrow at p.
SourcesEntry(m, ch, p) ==
    [kind |-> "sources", src |-> p,
     sources |-> GetSourceArrows(m, ch, ChunkOf(p), m[p], LocalOf(p))]

\* getSourceArrows called for the cell at p.
Sources(p) ==
    /\ edits = 1
    /\ Len(log.h) = 0
    /\ MapGetArrow(map, chunks, p).arrowType > 0
    /\ log' = [log EXCEPT !.h = <<SourcesEntry(map, chunks, p)>>]
    /\ UNCHANGED <<map, chunks, pool, nodes, nodeArray, updateSystem, ticks, edits>>

\* The second arrow is placed, then getSourceArrows is asked about one of the two.
NextInverse ==
    \/ \E q \in InverseWindow \ {InverseCell} : \E c \in InversePalette :
          edits = 0 /\ Place(q, c)
    \/ \E p \in InverseWindow : Sources(p)

SpecInverse == InitInverse /\ [][NextInverse]_vars

----------------------------------------------------------------------------
(* Specification of grids with cycles: every grid over the window of two by two     *)
(* cells of plain straight arrows and of arrows that signal to themselves (shapes   *)
(* 12 and 13), compiled by start() and run by both simulators side by side.         *)

CyclePalette ==
    {NewArrow(1, r, FALSE, 0) : r \in 0..3}
        \cup {NewArrow(12, r, FALSE, 0) : r \in {Left, Right}}
        \cup {NewArrow(13, Up, FALSE, 0)}

CycleGrids == [CompileWindow -> CyclePalette \cup {EmptyArrow}]

InitCycle == \E g \in CycleGrids : \E ch \in ChunkOrders(g) : Started(g, ch, 0, FALSE)

NextCycle == TickBoth(MaxEditTicks)

SpecCycle == InitCycle /\ [][NextCycle]_vars

----------------------------------------------------------------------------
(* Specification of the coordinates: an empty map around the origin of the world,  *)
(* with placements on cells of negative and non-negative coordinates, on both      *)
(* sides of the chunk borders at 0 and at -CHUNK_SIZE.                             *)

CoordSpan == 40

CoordWindow ==
    Box(-2, 1, -1, 0) \cup Box(-CHUNK_SIZE - 1, -CHUNK_SIZE, -1, 0)
        \cup Box(0, 0, -CHUNK_SIZE - 1, -CHUNK_SIZE)

CoordPalette ==
    {NewArrow(1, Right, FALSE, 0), NewArrow(1, Up, FALSE, 0), NewArrow(6, Left, FALSE, 0)}

InitCoord == Started(Grid(CoordWindow, << >>), << >>, 0, FALSE)

NextCoord == \E p \in CoordWindow : \E a \in CoordPalette : Place(p, a)

SpecCoord == InitCoord /\ [][NextCoord]_vars

----------------------------------------------------------------------------
(* Properties of the simulators and of the compiled graph. *)

\* The activation table of section 4.2.
ActivationTable(fn, n, prev) ==
    CASE fn = 0 -> n > 0
      [] fn = 1 -> TRUE
      [] fn = 2 -> n = 0
      [] fn = 3 -> n >= 2
      [] fn = 4 -> n % 2 = 1
      [] fn = 5 -> IF n > 0 THEN ~prev ELSE prev
      [] fn = 6 -> IF n > 0 THEN n % 2 = 0 ELSE prev

\* C5: in every tick the CA pass gives the centre cell the value of the activation
\* table for its logic function, the number of active cells pointing at it and its
\* previous value, and the node pass pushes the table's value for the node's type,
\* the number of source nodes delivering and the newest history entry.
C5_ActivationTable ==
    [][ticks' = ticks + 1 =>
         LET c  == PlusCentre
             n  == map[c].node
             nc == Cardinality({a \in PlusArms : map[a].active})
             nn == Cardinality({a \in PlusArms : SignalsAt(pool[map[a].node].signals, -1)})
         IN /\ map'[c].active = ActivationTable(map[c].medalType, nc, map[c].active)
            /\ SignalsAt(pool'[n].signals, 0)
                  = ActivationTable(pool[n].type, nn, SignalsAt(pool[n].signals, 0))
            /\ pool'[n].lastSignalCount = nn
            /\ map'[c].active = SignalsAt(pool'[n].signals, 0)]_vars

\* A tick has given a centre with function 3 (at least two signals) the value true.
C5_Witness ==
    /\ ticks >= 1
    /\ PlusCentre \in DOMAIN map
    /\ map[PlusCentre].medalType = 3
    /\ map[PlusCentre].active
    /\ pool[map[PlusCentre].node].lastSignalCount >= 2

\* The largest size of a live node.
MaxNodeSize ==
    IF nodes = {} THEN 0
    ELSE CHOOSE k \in {pool[n].size : n \in nodes} : \A n \in nodes : pool[n].size <= k

\* C2: on a grid compiled once and not edited, with both models started from the same
\* cell states, after k ticks of updateCA and k ticks of updateNodes every cell has
\* the same active value in both models once k is at least the largest node size.
C2_TraceEquivalence == ticks >= MaxNodeSize => Agree

\* A fused node of size two or more has run for at least its size in ticks and a
\* cell behind its head is active in both models.
C2_Witness ==
    /\ ticks >= MaxNodeSize
    /\ \E p \in Cells(map, chunks) :
          /\ map[p].offset >= 1
          /\ map[p].active
          /\ NodeShown(map, pool, p)

\* C6: after compilation no two distinct live nodes n and m are left such that m is
\* the only target of n, n is the only source of m and m has logic function 0.
C6_NoFusablePair ==
    \A n, m \in nodes :
        ~(/\ n # m
          /\ pool[n].targets = <<m>>
          /\ pool[m].sources = <<n>>
          /\ pool[m].type = 0)

\* The forward targets of the cell at p in the grid, as the resolver gives them.
TargetsOf(p) == GetTargetArrows(map, chunks, ChunkOf(p), map[p], LocalOf(p))

\* C7: a cell with two or more forward targets is the last cell of its node, the
\* node's targets list has one entry for each forward target, and every target cell
\* heads the node of its entry (it is fused into no other node).
C7_BranchNotFused ==
    \A p \in Cells(map, chunks) :
        Len(TargetsOf(p)) >= 2 =>
            LET n == map[p].node
            IN /\ n \in nodes
               /\ map[p].offset = pool[n].size - 1
               /\ Len(pool[n].targets) = Len(TargetsOf(p))
               /\ \A i \in 1..Len(TargetsOf(p)) :
                     /\ map[TargetsOf(p)[i]].node = pool[n].targets[i]
                     /\ map[TargetsOf(p)[i]].offset = 0

\* The four-way arrow is the second and last cell of a fused node and feeds four nodes.
C7_Witness ==
    /\ PlusCentre \in DOMAIN map
    /\ map[PlusCentre].arrowType = 5
    /\ Len(pool[map[PlusCentre].node].targets) = 4
    /\ Cardinality(Range(pool[map[PlusCentre].node].targets)) = 4
    /\ map[PlusCentre].offset = 1

\* The number of live nodes of each size.
Histogram(pl, live) ==
    {<<k, Cardinality({n \in live : pl[n].size = k})>> : k \in {pl[n].size : n \in live}}

\* The grid reduced to what is persisted: shape, rotation, mirror flag and logic
\* function of every cell.
Flatten(m) ==
    [p \in DOMAIN m |-> NewArrow(m[p].arrowType, m[p].rotation, m[p].flipped, m[p].medalType)]

\* C10: compiling the cells of the grid again gives the same number of nodes of each
\* size, in whatever order the chunks of the grid were created.
C10_DeterministicHistogram ==
    \A ch \in Perms(Range(chunks)) :
        LET c == SimplifyNodes(Flatten(map), ch)
        IN Histogram(c.pool, c.nodes) = Histogram(pool, nodes)

\* The cells of the delay line and the cell it feeds, read from the grid.
PulseSize == Cardinality({p \in DOMAIN map : p[1] >= PulseHead[1]}) - 1

\* C4: the node of the S plain cells behind X has size S and logic function 0, and
\* the signal count its target receives in tick i is the count the node itself
\* received in tick i - S, and 0 in the first S ticks: a pulse received in one tick
\* is delivered in the tick S ticks later and in no other tick.
C4_PulseDelay ==
    /\ pool[map[PulseHead].node].size = PulseSize
    /\ pool[map[PulseHead].node].type = 0
    /\ map[PulseOut(PulseSize)].node # map[PulseHead].node
    /\ \A i \in 1..Len(log.h) :
          log.h[i][PulseOut(PulseSize)].received =
              IF i > PulseSize THEN log.h[i - PulseSize][PulseHead].received ELSE 0

\* The node of MaxChain cells received a pulse in exactly one tick and its target
\* received it MaxChain ticks later, and in no other tick.
C4_Witness ==
    /\ PulseSize = MaxChain
    /\ \E i \in 1..Len(log.h) :
          /\ i + PulseSize <= Len(log.h)
          /\ \A j \in 1..Len(log.h) : (log.h[j][PulseHead].received > 0) = (j = i)
          /\ \A j \in 1..Len(log.h) :
                (log.h[j][PulseOut(PulseSize)].received > 0) = (j = i + PulseSize)

\* The chain scenario: after the first tick exactly the second cell is active, which
\* is the case exactly when the first cell alone was active before that tick.
ChainPulsed ==
    /\ Len(log.h) >= 1
    /\ \A k \in 1..6 : log.h[1][ChainCell(k)].ca = (k = 2)

\* C8 as stated: the first five cells form one node of size 5, and in the scenario the
\* four-way cell becomes active in CA tick 6.
C8_SingleSizeFiveNode ==
    /\ pool[map[ChainCell(1)].node].size = 5
    /\ pool[map[ChainCell(1)].node].arrows = [k \in 1..5 |-> ChainCell(k)]
    /\ (ChainPulsed /\ Len(log.h) >= 6) =>
          (log.h[6][ChainCell(6)].ca /\ ~log.h[5][ChainCell(6)].ca)

\* C8, amended: the first four cells form a node of size 4, the fifth cell and the
\* four-way cell (which signals back to the fifth) form a node of size 2 that feeds
\* itself; with the first cell alone active before tick 1, the four-way cell is active
\* after CA tick 5 and then after every second tick, and not before; under the node
\* model the size-4 node delivers the pulse in tick 4 and the four-way cell is shown
\* active one tick later, after tick 5, as in the CA model.
C8_ChainScenario ==
    /\ pool[map[ChainCell(1)].node].arrows = [k \in 1..4 |-> ChainCell(k)]
    /\ pool[map[ChainCell(1)].node].size = 4
    /\ pool[map[ChainCell(5)].node].arrows = <<ChainCell(5), ChainCell(6)>>
    /\ pool[map[ChainCell(5)].node].size = 2
    /\ pool[map[ChainCell(1)].node].targets = <<map[ChainCell(5)].node>>
    /\ pool[map[ChainCell(5)].node].targets = <<map[ChainCell(5)].node>>
    /\ nodes = {map[ChainCell(1)].node, map[ChainCell(5)].node}
    /\ ChainPulsed =>
          \A i \in 1..Len(log.h) :
             /\ log.h[i][ChainCell(6)].ca = (i >= 5 /\ i % 2 = 1)
             /\ log.h[i][ChainCell(6)].shown = (i >= 5 /\ i % 2 = 1)
             /\ (log.h[i][ChainCell(5)].received > 0) = (i >= 4 /\ i % 2 = 0)

\* The scenario has run for five ticks and the four-way cell is active in both models.
C8_Witness ==
    /\ ChainPulsed
    /\ Len(log.h) = 5
    /\ log.h[4][ChainCell(5)].received = 1
    /\ log.h[5][ChainCell(6)].ca
    /\ log.h[5][ChainCell(6)].shown

\* The non-empty cells of the grid.
NonEmpty == {p \in DOMAIN map : map[p].arrowType > 0}

C1_EditEquivalence == [][ticks' = ticks + 1 => Agree']_vars

\* The step removes exactly the cell at p, which lies strictly inside its node.
DeletesInterior(p) ==
    /\ map[p].arrowType > 0
    /\ map'[p].arrowType = 0
    /\ \A q \in DOMAIN map \ {p} : map'[q].arrowType = map[q].arrowType
    /\ map[p].node \in nodes
    /\ map[p].offset > 0
    /\ map[p].offset < pool[map[p].node].size - 1

\* After the step the cells before offset k of the node and the cells behind it are
\* held by two live nodes, at offsets counted from 0, showing what they showed before.
SplitInTwo(cells, sig, k) ==
    \E a, b \in nodes' :
        /\ a # b
        /\ pool'[a].arrows = SubSeq(cells, 1, k)
        /\ pool'[a].size = k
        /\ pool'[b].arrows = SubSeq(cells, k + 2, Len(cells))
        /\ pool'[b].size = Len(cells) - k - 1
        /\ \A i \in 1..Len(cells) :
              i # k + 1 =>
                 /\ map'[cells[i]].node = (IF i <= k THEN a ELSE b)
                 /\ map'[cells[i]].offset = (IF i <= k THEN i - 1 ELSE i - k - 2)
                 /\ NodeShown(map', pool', cells[i]) = SignalsAt(sig, i - 1)

\* After the step no live node holds an empty cell or refers to a node that is not live.
NoDangling ==
    \A n \in nodes' :
        /\ \A c \in Range(pool'[n].arrows) : map'[c].arrowType > 0 /\ map'[c].node = n
        /\ Range(pool'[n].targets) \subseteq nodes'
        /\ Range(pool'[n].sources) \subseteq nodes'

\* C9: deleting the cell at an interior offset k of a fused node of size S leaves two
\* live nodes holding the cells [0, k) and (k, S) with offsets renumbered from 0, every
\* surviving cell shows the signal value it showed before, and no live node refers
\* to the deleted cell or to a node that is not live.
C9_SplitOnDelete ==
    [][\A p \in DOMAIN map :
          DeletesInterior(p) =>
             /\ SplitInTwo(pool[map[p].node].arrows, pool[map[p].node].signals, map[p].offset)
             /\ NoDangling]_vars

\* The middle cell of the row was deleted after a tick: its neighbours are nodes of
\* their own and one of them shows a signal.
C9_Witness ==
    /\ edits = 1
    /\ ticks >= 1
    /\ map[<<CHUNK_SIZE, 0>>].arrowType = 0
    /\ map[<<CHUNK_SIZE - 1, 0>>].arrowType > 0
    /\ map[<<CHUNK_SIZE + 1, 0>>].arrowType > 0
    /\ map[<<CHUNK_SIZE - 1, 0>>].node # map[<<CHUNK_SIZE + 1, 0>>].node
    /\ pool[map[<<CHUNK_SIZE - 1, 0>>].node].size = 1
    /\ NodeShown(map, pool, <<CHUNK_SIZE + 1, 0>>)

\* A live node whose size changes in the step keeps its most recent entries in their
\* order: the entries 0 .. size' - 1 when it shrinks, all of them when it grows.
ResizeKeepsRecent ==
    \A n \in nodes \cap nodes' :
        pool'[n].size # pool[n].size =>
            IF pool'[n].size < pool[n].size
            THEN pool'[n].signals = SubSeq(pool[n].signals, 1, pool'[n].size)
            ELSE SubSeq(pool'[n].signals, 1, pool[n].size) = pool[n].signals

\* C11: in every state the signals history of every live node has as many entries as
\* the node's size, and a node whose size changes in a step (a split, an insert or a
\* splice of an edit) retains its most recent entries in their original order.
C11_HistoryCapacity ==
    /\ [](\A n \in nodes : Len(pool[n].signals) = pool[n].size)
    /\ [][ResizeKeepsRecent]_vars

\* After a tick the cell at offset 2 of the fused row was deleted: the node of the
\* first two cells was cut down from the row's size to 2 and still shows the signal
\* at offset 1.
C11_Witness ==
    /\ edits = 1
    /\ ticks >= 1
    /\ map[<<CHUNK_SIZE + 1, 0>>].arrowType = 0
    /\ map[<<CHUNK_SIZE, 0>>].node = map[<<CHUNK_SIZE - 1, 0>>].node
    /\ map[<<CHUNK_SIZE, 0>>].node \in nodes
    /\ pool[map[<<CHUNK_SIZE, 0>>].node].size = 2
    /\ Len(pool[map[<<CHUNK_SIZE, 0>>].node].signals) = 2
    /\ map[<<CHUNK_SIZE, 0>>].offset = 1
    /\ NodeShown(map, pool, <<CHUNK_SIZE, 0>>)

\* The step is a load that failed: the history gains an entry with ok false.
FailedLoad ==
    /\ Len(log'.h) = Len(log.h) + 1
    /\ ~log'.h[Len(log'.h)].ok

\* C12: a load that fails to parse, from the clipboard in onPaste or from the URL
\* hash in start, leaves the map, its chunks and the node graph as they were.
C12_FailedLoadKeepsGrid ==
    [][FailedLoad => (map' = map /\ chunks' = chunks /\ pool' = pool /\ nodes' = nodes)]_vars

\* One quarter turn of an offset, and r of them.
Turn(d) == <<d[2], -d[1]>>

RECURSIVE Turns(_, _)
Turns(d, r) == IF r = 0 THEN d ELSE Turns(Turn(d), r - 1)

\* The displacement of section 4.1: the lateral component negated when mirrored,
\* then rotation quarter turns; and the world position it leads to from p.
Displacement(a, d) == Turns(<<IF a.flipped THEN -d[1] ELSE d[1], d[2]>>, a.rotation)

Landing(p, a, d) == <<p[1] + Displacement(a, d)[1], p[2] + Displacement(a, d)[2]>>

\* There is a cell to signal to at world position w: its chunk exists and it is not empty.
Occupied(w) == ChunkOf(w) \in Range(chunks) /\ MapGetArrow(map, chunks, w).arrowType > 0

\* The query asked last, if any.
Asked(kind) == Len(log.h) = 1 /\ log.h[1].kind = kind

\* C13: an offset that lands in a missing chunk or on an empty cell gives no cell in
\* getArrowRelative and in addTargetNode; getTargetArrows and createNode give
\* exactly the offsets of the shape that land on non-empty cells of existing chunks,
\* and the compiled node of the arrow has its targets among the nodes of those cells.
C13_NoEdgeToNothing ==
    /\ Asked("offset") =>
          (~Occupied(Landing(log.h[1].src, map[log.h[1].src], log.h[1].d))
              => log.h[1].cell = << >> /\ log.h[1].acell = << >>)
    /\ Asked("targets") =>
          /\ Range(log.h[1].targets) \subseteq Cells(map, chunks)
          /\ Range(log.h[1].raw) \subseteq Cells(map, chunks)
          /\ log.h[1].targets =
                SelectSeq([i \in 1..Len(TargetOffsets(map[log.h[1].src].arrowType)) |->
                              Landing(log.h[1].src, map[log.h[1].src],
                                      TargetOffsets(map[log.h[1].src].arrowType)[i])],
                          Occupied)
          /\ log.h[1].raw = log.h[1].targets
          /\ pool[map[log.h[1].src].node].targets =
                [i \in 1..Len(log.h[1].raw) |-> map[log.h[1].raw[i]].node]

\* The arrow has two offsets, one landing in a chunk that does not exist and one on a
\* cell of its own chunk: it has that one target.
C13_Witness ==
    /\ Asked("targets")
    /\ Len(TargetOffsets(map[log.h[1].src].arrowType)) = 2
    /\ Len(log.h[1].targets) = 1
    /\ \E i \in 1..2 :
          ChunkOf(Landing(log.h[1].src, map[log.h[1].src],
                          TargetOffsets(map[log.h[1].src].arrowType)[i])) \notin Range(chunks)
    /\ Len(pool[map[log.h[1].src].node].targets) = 1

\* C14: the state a CA tick leaves is the same for every order in which the two loops
\* of updateCA visit the cells, and every cell's new active flag is the activation
\* function of its logic function, its previous flag and the number of sends to it
\* from the cells that were active when the tick began.
C14_OrderIndependent ==
    [][ticks' = ticks + 1 =>
         /\ \A order \in Perms(Cells(map, chunks)) : UpdateCAIn(map, chunks, order) = map'
         /\ \A p \in Cells(map, chunks) :
               map'[p].active = CAActivate(map[p].medalType, CASignals(map, chunks, p),
                                           map[p].active)]_vars

\* A chain of three plain cells after one tick: the signal has moved from the first
\* cell to the second and no further.
C14_Witness ==
    /\ ticks = 1
    /\ \E p, q, r \in Cells(map, chunks) :
          /\ p # q /\ q # r /\ p # r
          /\ TargetsOf(p) = <<q>>
          /\ TargetsOf(q) = <<r>>
          /\ map[p].medalType = 0 /\ map[q].medalType = 0 /\ map[r].medalType = 0
          /\ ~map[p].active /\ map[q].active /\ ~map[r].active

CellStates(m) == [p \in DOMAIN m |-> <<m[p].active, m[p].signalCount>>]

\* The per-tick state of the nodes: history, signal count and lastSignal.
NodeStates(pl) == [n \in DOMAIN pl |-> <<pl[n].signals, pl[n].signalCount, pl[n].lastSignal>>]

\* C16: a tick with the selector at 0 is a tick of updateCA and leaves the signals,
\* signalCount and lastSignal of every node unchanged; a tick with the selector at 1
\* is a tick of updateNodes and leaves the active flag and signalCount of every cell
\* unchanged; a step that changes the selector changes neither.
C16_OneSimulatorPerTick ==
    [][/\ (ticks' = ticks + 1 /\ updateSystem = 0) =>
             (map' = UpdateCA(map, chunks) /\ NodeStates(pool') = NodeStates(pool))
       /\ (ticks' = ticks + 1 /\ updateSystem = 1) =>
             (pool' = UpdateNodes(pool, nodeArray) /\ CellStates(map') = CellStates(map))
       /\ updateSystem' # updateSystem =>
             (CellStates(map') = CellStates(map) /\ NodeStates(pool') = NodeStates(pool))]_vars

\* Both simulators have run and the selector is at 1: a cell is active in the CA model
\* and not shown by its node, another is shown by its node and not active.
C16_Witness ==
    /\ ticks >= 2
    /\ updateSystem = 1
    /\ \E p, q \in Cells(map, chunks) :
          /\ map[p].active /\ ~NodeShown(map, pool, p)
          /\ NodeShown(map, pool, q) /\ ~map[q].active

\* C17: after a medal placement has changed the logic function of a cell, the cell is
\* the only cell of its node, at offset 0, the node is live and its logic function
\* is the new function of the cell.
C17_MedalIsolatesCell ==
    [][\A p \in DOMAIN map :
          (/\ edits' = edits + 1
           /\ map[p].arrowType > 0
           /\ map'[p].arrowType > 0
           /\ map'[p].medalType # 0
           /\ map'[p].medalType # map[p].medalType) =>
              /\ map'[p].node \in nodes'
              /\ map'[p].offset = 0
              /\ pool'[map'[p].node].arrows = <<p>>
              /\ pool'[map'[p].node].size = 1
              /\ pool'[map'[p].node].type = map'[p].medalType]_vars

\* The second cell of the fused row got a medal: it is a node of its own between the
\* node of the first cell and the node of the cells behind it.
C17_Witness ==
    /\ edits = 1
    /\ map[<<CHUNK_SIZE, 0>>].medalType = 2
    /\ map[<<CHUNK_SIZE, 1>>].arrowType = 0
    /\ pool[map[<<CHUNK_SIZE, 0>>].node].arrows = << <<CHUNK_SIZE, 0>> >>
    /\ pool[map[<<CHUNK_SIZE, 0>>].node].type = 2
    /\ pool[map[<<CHUNK_SIZE - 1, 0>>].node].targets = <<map[<<CHUNK_SIZE, 0>>].node>>
    /\ pool[map[<<CHUNK_SIZE + 1, 0>>].node].size >= 2
    /\ map[<<CHUNK_SIZE + 1, 0>>].offset = 0

\* The cells of the raw grid that signal to the cell at q, as the resolver gives them.
RawSourcesOf(q) == {p \in Cells(map, chunks) : q \in Range(TargetsOf(p))}

\* The cell before q in its node.
Predecessor(q) == pool[map[q].node].arrows[map[q].offset]

\* C18: after compilation every cell at an offset i > 0 of its node has logic function
\* 0, the cell at offset i - 1 of the same node is its only source in the raw grid,
\* and that cell has it as its one existing forward target.
C18_FusionSound ==
    \A q \in Cells(map, chunks) :
        map[q].offset > 0 =>
            /\ map[q].node \in nodes
            /\ pool[map[q].node].arrows[map[q].offset + 1] = q
            /\ map[q].medalType = 0
            /\ RawSourcesOf(q) = {Predecessor(q)}
            /\ TargetsOf(Predecessor(q)) = <<q>>

\* Three cells were fused into one node headed by a cell with the NOT function.
C18_Witness ==
    \E q \in Cells(map, chunks) :
        /\ map[q].offset = 2
        /\ pool[map[q].node].size = 3
        /\ pool[map[q].node].type = 2
        /\ map[pool[map[q].node].arrows[1]].medalType = 2

\* The displacement getArrowRelative computes for rotation r, mirror flag f and offset d.
CodeDisplacement(r, f, d) == RelativeMove([rotation |-> r, flipped |-> f], <<0, 0>>, d)

\* The displacement of rotation 1 applied r times to v.
RECURSIVE CodeTurns(_, _)
CodeTurns(v, r) == IF r = 0 THEN v ELSE CodeTurns(CodeDisplacement(1, FALSE, v), r - 1)

\* C19: for the offset asked about, getArrowRelative moves the position by the offset
\* with dx negated when the arrow is mirrored and then turned rotation times by
\* (dx, dy) -> (dy, -dx); the displacement of rotation r is the displacement of
\* rotation 1 applied r times to that of rotation 0, four such turns are the
\* identity, and addTargetNode moves the position to the same place.
C19_RotationComposes ==
    Asked("offset") =>
        /\ log.h[1].move =
              <<LocalOf(log.h[1].src)[1] + Displacement(map[log.h[1].src], log.h[1].d)[1],
                LocalOf(log.h[1].src)[2] + Displacement(map[log.h[1].src], log.h[1].d)[2]>>
        /\ CodeDisplacement(1, FALSE, log.h[1].d) = Turn(log.h[1].d)
        /\ CodeDisplacement(map[log.h[1].src].rotation, map[log.h[1].src].flipped, log.h[1].d)
              = CodeTurns(CodeDisplacement(0, map[log.h[1].src].flipped, log.h[1].d),
                          map[log.h[1].src].rotation)
        /\ CodeTurns(log.h[1].d, 4) = log.h[1].d
        /\ log.h[1].amove = log.h[1].move

\* A mirrored arrow of rotation 3 asked about the offset (1, -1): the position moves
\* by (1, -1).
C19_Witness ==
    /\ Asked("offset")
    /\ map[log.h[1].src].flipped
    /\ map[log.h[1].src].rotation = 3
    /\ log.h[1].d = <<1, -1>>
    /\ log.h[1].move = <<LocalOf(log.h[1].src)[1] + 1, LocalOf(log.h[1].src)[2] - 1>>
    /\ log.h[1].amove = log.h[1].move

\* -1, 0 or 1: on which side the coordinate v leaves [0, CHUNK_SIZE), if it does.
Overflow(v) == IF v < 0 THEN -1 ELSE IF v >= CHUNK_SIZE THEN 1 ELSE 0

\* C20: for the offset asked about, the chunk getArrowRelative re-bases into is the
\* neighbour on the side or corner where the moved position leaves the arrow's chunk
\* (none when that chunk does not exist), the local position it computes lies in
\* [0, CHUNK_SIZE)^2, chunk and local position together denote the world position of
\* the arrow plus the displacement, and addTargetNode computes the same pair.
C20_RebaseDenotesCell ==
    Asked("offset") =>
        /\ (log.h[1].reb.chunk = << >>) =
              (ChunkOf(Landing(log.h[1].src, map[log.h[1].src], log.h[1].d)) \notin Range(chunks))
        /\ log.h[1].reb.chunk # << >> =>
              /\ log.h[1].reb.local \in (0..(CHUNK_SIZE - 1)) \X (0..(CHUNK_SIZE - 1))
              /\ log.h[1].reb.chunk =
                    <<ChunkOf(log.h[1].src)[1] + Overflow(log.h[1].move[1]),
                      ChunkOf(log.h[1].src)[2] + Overflow(log.h[1].move[2])>>
              /\ WorldOf(log.h[1].reb.chunk, log.h[1].reb.local) =
                    Landing(log.h[1].src, map[log.h[1].src], log.h[1].d)
        /\ log.h[1].areb = log.h[1].reb

\* The offset leaves the arrow's chunk over its corner and a cell is found in the
\* diagonal neighbour chunk.
C20_Witness ==
    /\ Asked("offset")
    /\ Overflow(log.h[1].move[1]) # 0
    /\ Overflow(log.h[1].move[2]) # 0
    /\ log.h[1].reb.chunk # << >>
    /\ log.h[1].reb.chunk[1] # ChunkOf(log.h[1].src)[1]
    /\ log.h[1].reb.chunk[2] # ChunkOf(log.h[1].src)[2]
    /\ log.h[1].cell = Landing(log.h[1].src, map[log.h[1].src], log.h[1].d)

\* The cell at c signals to the cell at a: one of the offsets of its shape, mirrored
\* and turned as section 4.1 says, lands on a.
SignalsTo(c, a) ==
    \E i \in 1..Len(TargetOffsets(map[c].arrowType)) :
        Landing(c, map[c], TargetOffsets(map[c].arrowType)[i]) = a

\* C21: for the cell a asked about, getSourceArrows returns, each exactly once, the
\* non-empty cells c (a itself included) whose forward targets contain a, and those
\* are the cells getTargetArrows gives a for.
C21_ReverseIsInverse ==
    Asked("sources") =>
        /\ \A i, j \in 1..Len(log.h[1].sources) :
               i # j => log.h[1].sources[i] # log.h[1].sources[j]
        /\ Range(log.h[1].sources) = {c \in Cells(map, chunks) : SignalsTo(c, log.h[1].src)}
        /\ Range(log.h[1].sources) =
               {c \in Cells(map, chunks) : log.h[1].src \in Range(TargetsOf(c))}

\* A mirrored shape-13 arrow turned to the left is asked about: it is its own source,
\* and so is the shape-7 arrow on a diagonal neighbour cell in another chunk.
C21_Witness ==
    /\ Asked("sources")
    /\ log.h[1].src = InverseCell
    /\ map[InverseCell].arrowType = 13
    /\ map[InverseCell].flipped
    /\ map[InverseCell].rotation = Left
    /\ Len(log.h[1].sources) = 2
    /\ InverseCell \in Range(log.h[1].sources)
    /\ \E c \in Range(log.h[1].sources) :
          /\ map[c].arrowType = 7
          /\ ChunkOf(c)[1] # ChunkOf(InverseCell)[1]
          /\ ChunkOf(c)[2] # ChunkOf(InverseCell)[2]

\* C22: for the arrow asked about, the cells createNode wires as targets, the cells
\* getTargetArrows returns and the cells updateCA sends a signal to are the same, in
\* the same order, and the three tables hold the same offsets for every shape 1..13.
C22_TablesAgree ==
    /\ \A t \in 1..13 :
          CreateNodeOffsets(t) = TargetOffsets(t) /\ SendOffsets(t) = TargetOffsets(t)
    /\ Asked("targets") =>
          /\ log.h[1].raw = log.h[1].targets
          /\ SelectSeq(log.h[1].sends, LAMBDA c : c # << >>) = log.h[1].targets
          /\ Range(log.h[1].raw) =
                {c \in Cells(map, chunks) : SignalsTo(log.h[1].src, c)}

\* A mirrored four-way arrow beside the chunk corner with a cell on each side: four
\* targets in three or more chunks, the same in the three tables.
C22_Witness ==
    /\ Asked("targets")
    /\ map[log.h[1].src].arrowType = 5
    /\ map[log.h[1].src].flipped
    /\ Len(log.h[1].targets) = 4
    /\ Len(log.h[1].raw) = 4
    /\ Cardinality({c \in Range(log.h[1].sends) : c # << >>}) = 4
    /\ Cardinality({ChunkOf(c) : c \in Range(log.h[1].targets)}) >= 3

\* s ends with t.
EndsWith(s, t) == Len(t) <= Len(s) /\ SubSeq(s, Len(s) - Len(t) + 1, Len(s)) = t

\* createNodes made one raw node for each non-empty cell and none besides, with the
\* targets of the shape's offsets and one sources entry for each edge into it.
RawOnce(rs, m, ch) ==
    /\ DOMAIN rs.raw = Cells(m, ch)
    /\ rs.made = Cardinality(Cells(m, ch))
    /\ \A p \in Cells(m, ch) :
          /\ rs.raw[p].targets = CreateNodes(m, ch)[p].targets
          /\ Len(rs.raw[p].sources) = CreateNodes(m, ch)[p].nsources
          /\ \A q \in Cells(m, ch) :
                Count(rs.raw[p].targets, q) = Count(rs.raw[q].sources, p)

\* simplifyNodes copied each raw node once: as many compiled nodes were made as there
\* are cells, and the memo maps the cells one to one onto them, each compiled node
\* starting with the cell it is the copy of.
CopiedOnce(st, m, ch) ==
    /\ DOMAIN st.simp = Cells(m, ch)
    /\ Cardinality(DOMAIN st.pl) = Cardinality(Cells(m, ch))
    /\ {st.simp[p] : p \in DOMAIN st.simp} = DOMAIN st.pl
    /\ \A p \in DOMAIN st.simp : st.pl[st.simp[p]].arrows[1] = p

\* A compiled node that left the live set by fusion was complete when it was fused:
\* the cells and targets it ended with are the end of those of another compiled
\* node, and every compiled node is complete in the end.
FusedWhenReady(st) ==
    /\ \A t \in DOMAIN st.pl : st.pl[t].ready
    /\ \A t \in DOMAIN st.pl \ st.live :
          \E n \in DOMAIN st.pl \ {t} :
              /\ EndsWith(st.pl[n].arrows, st.pl[t].arrows)
              /\ EndsWith(st.pl[n].targets, st.pl[t].targets)
              /\ Len(st.pl[n].arrows) > Len(st.pl[t].arrows)

\* What holds of the run of simplifyNode that ended in st.
SimplifiedOnce(st, m, ch) == CopiedOnce(st, m, ch) /\ FusedWhenReady(st) /\ nodes = st.live

\* C23: on the grid as compiled (start has returned, so createNodes and simplifyNodes
\* have), createNodes made exactly one raw node for each non-empty cell, simplifyNode
\* copied each raw node exactly once, no node was fused into another while it was
\* still being compiled, and the live nodes start() left are those of that run and
\* hold every cell once.
C23_CompileOnce ==
    (ticks = 0 /\ edits = 0) =>
        /\ RawOnce(CreateAll(RawInit, map, chunks, ScanOrder(map, chunks), 1), map, chunks)
        /\ SimplifiedOnce(SimplifyAll(SimplifyInit(map, chunks), CreateNodes(map, chunks),
                                      ScanOrder(map, chunks), 1), map, chunks)
        /\ \A p \in Cells(map, chunks) :
              Cardinality({n \in nodes : p \in Range(pool[n].arrows)}) = 1
        /\ \A n \in nodes :
              pool[n].ready /\ Cardinality(Range(pool[n].arrows)) = pool[n].size

\* Two straight arrows pointing at each other were compiled into one node of two
\* cells that feeds itself, and below them an arrow that signals to itself alone is
\* a node of one cell with itself as its target and its source.
C23_Witness ==
    /\ ticks = 0
    /\ \E n \in nodes : pool[n].size = 2 /\ pool[n].targets = <<n>> /\ pool[n].sources = <<n>>
    /\ \E p \in Cells(map, chunks) :
          /\ map[p].arrowType = 13
          /\ pool[map[p].node].size = 1
          /\ pool[map[p].node].targets = <<map[p].node>>
          /\ pool[map[p].node].sources = <<map[p].node>>

\* C24: after compilation and after every edit, for all live nodes n and m, m occurs
\* in the targets of n as many times as n occurs in the sources of m, and every node
\* in the targets or sources of a live node is live.
C24_EdgesMutual ==
    /\ \A n, m \in nodes : Count(pool[n].targets, m) = Count(pool[m].sources, n)
    /\ \A n \in nodes : Range(pool[n].targets) \cup Range(pool[n].sources) \subseteq nodes

\* Two edits were made and the cell below the row is taken: the arrow above it has
\* two targets, each a live node with the arrow's node once among its sources.
C24_Witness ==
    /\ edits = MaxEdits
    /\ map[<<CHUNK_SIZE, 1>>].arrowType > 0
    /\ map[<<CHUNK_SIZE, 0>>].arrowType = 3
    /\ Len(pool[map[<<CHUNK_SIZE, 0>>].node].targets) = 2
    /\ map[<<CHUNK_SIZE, 1>>].node \in Range(pool[map[<<CHUNK_SIZE, 0>>].node].targets)
    /\ \A t \in Range(pool[map[<<CHUNK_SIZE, 0>>].node].targets) :
          t \in nodes /\ Count(pool[t].sources, map[<<CHUNK_SIZE, 0>>].node) = 1

\* C25: in every state the handlers leave (start and every edit handler; a tick runs
\* between handlers only), nodeArray holds exactly the live nodes; a batch edit that
\* removes several cells is one step, after which this holds again.
C25_ArrayIsLiveSet ==
    /\ nodeArray = nodes
    /\ nodeArray \subseteq DOMAIN pool

\* One Backspace or cut removed two cells of the row at once: the nodes of the cells
\* left are the live set and the array.
C25_Witness ==
    /\ edits = 1
    /\ Cardinality(Cells(map, chunks)) = MaxRow - 2
    /\ nodes # {}
    /\ nodeArray = {map[p].node : p \in Cells(map, chunks)}

\* The cell at p is held by a live node at the offset it records.
HeldLive(p) ==
    /\ map[p].arrowType > 0
    /\ map[p].node \in nodes
    /\ map[p].offset + 1 \in 1..Len(pool[map[p].node].arrows)
    /\ pool[map[p].node].arrows[map[p].offset + 1] = p

\* C26: an edit that takes a cell away or replaces it (placement over an occupied
\* cell, R) splices a cell held by a live node at its offset, and every position
\* Backspace or cut works through, that is every position in highlightedArrows when
\* the handler runs, is such a cell: no highlighted position is an empty cell.
C26_SpliceOnLiveCell ==
    [][/\ edits' = edits + 1 =>
             \A p \in DOMAIN map :
                 (map[p].arrowType > 0 /\ map'[p].node # map[p].node) =>
                     (map[p].node \in nodes /\ map[p].offset < pool[map[p].node].size)
       /\ (Len(log.h) > 0 /\ Len(log'.h) = 0) => \A p \in Range(log.h) : HeldLive(p)]_vars

\* The last cell of live node n.
LastCell(n) == pool[n].arrows[Len(pool[n].arrows)]

\* C27: after compilation and after every edit, each cell at an offset i > 0 has the
\* cell at offset i - 1 of its node as its only source in the raw grid and is that
\* cell's only forward target, and the targets of every live node are the nodes of
\* the forward targets of its last cell, one entry for each, every such target
\* cell at offset 0 of its node.
C27_GraphMatchesGrid ==
    /\ \A q \in Cells(map, chunks) :
          map[q].offset > 0 =>
              /\ map[q].node \in nodes
              /\ RawSourcesOf(q) = {Predecessor(q)}
              /\ TargetsOf(Predecessor(q)) = <<q>>
    /\ \A n \in nodes :
          /\ \A c \in Range(TargetsOf(LastCell(n))) : map[c].offset = 0
          /\ \A m \in nodes :
                Count(pool[n].targets, m) =
                    Cardinality({i \in 1..Len(TargetsOf(LastCell(n))) :
                                    map[TargetsOf(LastCell(n))[i]].node = m})

\* The forward targets of the cell at c in the grid m.
GridTargets(m, ch, c) == GetTargetArrows(m, ch, ChunkOf(c), m[c], LocalOf(c))

\* The number of forward edges of the grid m from a cell of node n to a cell of
\* node k that are not the step from one cell of a node to the next.
GridEdges(m, ch, pl, n, k) ==
    Cardinality({ci \in Range(pl[n].arrows) \X (1..4) :
        /\ ci[2] <= Len(GridTargets(m, ch, ci[1]))
        /\ m[GridTargets(m, ch, ci[1])[ci[2]]].node = k
        /\ ~(/\ n = k
             /\ m[GridTargets(m, ch, ci[1])[ci[2]]].offset = m[ci[1]].offset + 1
             /\ Len(GridTargets(m, ch, ci[1])) = 1)})

\* The targets and sources of the live nodes are those the grid m gives, and inside
\* a node every cell signals to the next cell of the node and to no other.
EdgesOfGrid(m, ch, pl, live) ==
    /\ \A n, k \in live :
          /\ Count(pl[n].targets, k) = GridEdges(m, ch, pl, n, k)
          /\ Count(pl[k].sources, n) = GridEdges(m, ch, pl, n, k)
    /\ \A n \in live : \A i \in 2..Len(pl[n].arrows) :
          GridTargets(m, ch, pl[n].arrows[i - 1]) = <<pl[n].arrows[i]>>

\* C28: a step that changes the rotation or the mirror flag of a cell in place
\* leaves every live node with the targets and sources the resolver's forward edges
\* of the edited grid give.
C28_RotateKeepsGraph ==
    [][(\E p \in DOMAIN map :
           map'[p].rotation # map[p].rotation \/ map'[p].flipped # map[p].flipped)
        => EdgesOfGrid(map', chunks', pool', nodes')]_vars

\* In a tick every history entry of a live node moves from its offset to the next,
\* the entry at offset 0 is the new CA flag of the node's first cell and the entry
\* at offset size - 1, delivered in the next tick, the new CA flag of its last cell.
TickShifts ==
    ticks' = ticks + 1 =>
        \A n \in nodes :
            /\ \A i \in 1..(pool[n].size - 1) :
                  SignalsAt(pool'[n].signals, i) = SignalsAt(pool[n].signals, i - 1)
            /\ SignalsAt(pool'[n].signals, 0) = map'[pool[n].arrows[1]].active
            /\ SignalsAt(pool'[n].signals, -1) = map'[LastCell(n)].active
            /\ SignalsAt(pool'[n].signals, pool[n].size - 1) = SignalsAt(pool'[n].signals, -1)

\* C29: on the compiled grid, with the same cells toggled in both models before the
\* first tick, in every state every non-empty cell's node shows at the cell's offset
\* the cell's CA active flag, and every tick moves the history entries by one
\* offset, offset 0 taking the newest value and offset size - 1 holding the value
\* delivered to the targets in the next tick.
C29_PerCellLockstep == []Agree /\ [][TickShifts]_vars

\* After three ticks the pulse given to the first cell of the chain is at the fourth
\* cell, offset 3 of the node of size 4, in both models, and nowhere else.
C29_Witness ==
    /\ ticks = 3
    /\ map[ChainCell(4)].offset = 3
    /\ pool[map[ChainCell(4)].node].size = 4
    /\ \A k \in 1..6 : map[ChainCell(k)].active = (k = 4)
    /\ \A k \in 1..6 : NodeShown(map, pool, ChainCell(k)) = (k = 4)

\* The step is the R key over the cell at p, which carries a logic function.
ClearsMedal(p) == map[p].arrowType > 0 /\ map[p].medalType # 0 /\ RemoveR(p)

\* C30: in every state the logic function of each live node is that of its first
\* cell and every cell at an offset > 0 has logic function 0; and a step that
\* clears the logic function of a cell with the R key finds the cell at offset 0
\* of its node, leaves it at the head of that node with function 0, and changes
\* the function of no other node.
C30_TypeOfFirstCell ==
    /\ [](/\ \A n \in nodes : pool[n].type = map[pool[n].arrows[1]].medalType
          /\ \A p \in Cells(map, chunks) : map[p].offset > 0 => map[p].medalType = 0)
    /\ [][\A p \in DOMAIN map :
              ClearsMedal(p) =>
                  /\ map[p].offset = 0
                  /\ pool[map[p].node].type = map[p].medalType
                  /\ map'[p].arrowType = map[p].arrowType
                  /\ map'[p].medalType = 0
                  /\ map'[p].node = map[p].node
                  /\ map'[p].offset = 0
                  /\ pool'[map[p].node].type = 0
                  /\ \A n \in (nodes \cap nodes') \ {map[p].node} :
                        pool'[n].type = pool[n].type]_vars

\* The second cell of a row of straight arrows got the NOT function and then lost it
\* again: it is a node of one cell with function 0 and no live node has a function.
C30_Witness ==
    /\ edits = 2
    /\ \A p \in EditRow : map[p].arrowType = 1 /\ map[p].medalType = 0
    /\ map[<<CHUNK_SIZE, 1>>].arrowType = 0
    /\ pool[map[<<CHUNK_SIZE, 0>>].node].arrows = << <<CHUNK_SIZE, 0>> >>
    /\ pool[map[<<CHUNK_SIZE - 1, 0>>].node].arrows = << <<CHUNK_SIZE - 1, 0>> >>
    /\ pool[map[<<CHUNK_SIZE + 1, 0>>].node].arrows[1] = <<CHUNK_SIZE + 1, 0>>
    /\ \A n \in nodes : pool[n].type = 0

\* The step is a medal placement on the cell at p, which is at offset 0 of its node.
MedalOnHead(p) == map[p].arrowType > 0 /\ map[p].offset = 0 /\ Medal(p, 2)

C32_CountsAreScratch ==
    /\ \A p \in Cells(map, chunks) : map[p].signalCount = 0
    /\ \A n \in nodes : pool[n].signalCount = 0

\* An edit was made and ticks were run after it in which signals were counted: a
\* cell without a logic function is active in the cell model and a live node
\* counted a signal in its last tick.
C32_Witness ==
    /\ edits >= 1
    /\ ticks >= 1
    /\ \E p \in Cells(map, chunks) : map[p].medalType = 0 /\ map[p].active
    /\ \E n \in nodes : pool[n].lastSignalCount > 0
    /\ \A n \in nodes : pool[n].signalCount = 0

\* The chunk c and the local position l denote the world position p: p lies in the
\* chunk, l lies in the chunk's square and is p counted from the chunk's corner.
Denotes(c, l, p) ==
    /\ CHUNK_SIZE * c[1] <= p[1] /\ p[1] < CHUNK_SIZE * c[1] + CHUNK_SIZE
    /\ CHUNK_SIZE * c[2] <= p[2] /\ p[2] < CHUNK_SIZE * c[2] + CHUNK_SIZE
    /\ l[1] \in 0..(CHUNK_SIZE - 1) /\ l[2] \in 0..(CHUNK_SIZE - 1)
    /\ WorldOf(c, l) = p

\* C33: for every world position, negative coordinates included, the chunk index
\* of the placement is the floor of the coordinates over 16 and the local position
\* lies in [0, 16)^2; and for every cell of the map the pair is the chunk and the
\* local position under which the map keeps the cell, so that a placed cell is
\* the cell of that chunk at that local position.
C33_PlacementCoordinates ==
    /\ \A x \in (-CoordSpan)..CoordSpan : \A y \in {-CoordSpan, -CHUNK_SIZE, -1, 0, CoordSpan} :
          Denotes(PlaceChunk(<<x, y>>), PlaceLocal(<<x, y>>), <<x, y>>)
          /\ Denotes(PlaceChunk(<<y, x>>), PlaceLocal(<<y, x>>), <<y, x>>)
    /\ \A p \in DOMAIN map :
          /\ Denotes(PlaceChunk(p), PlaceLocal(p), p)
          /\ PlaceChunk(p) = ChunkOf(p)
          /\ PlaceLocal(p) = LocalOf(p)
          /\ map[p].arrowType > 0 =>
                /\ PlaceChunk(p) \in Range(chunks)
                /\ ChunkGetArrow(map, PlaceChunk(p), PlaceLocal(p)) = MapGetArrow(map, chunks, p)

\* Two arrows were placed at negative x on the two sides of the chunk border at
\* -CHUNK_SIZE, in the chunks (-2, 0) and (-1, 0), and the first signals to the second.
C33_Witness ==
    /\ edits = 2
    /\ map[<<-CHUNK_SIZE - 1, 0>>].arrowType = 1
    /\ map[<<-CHUNK_SIZE, 0>>].arrowType = 1
    /\ <<-2, 0>> \in Range(chunks)
    /\ <<-1, 0>> \in Range(chunks)
    /\ PlaceChunk(<<-CHUNK_SIZE, 0>>) = <<-1, 0>>
    /\ map[<<-CHUNK_SIZE, 0>>].node \in
          Range(pool[map[<<-CHUNK_SIZE - 1, 0>>].node].targets)

\* C34: a frame with R held over a non-empty cell acts on the cell exactly when the
\* cell was not acted on since the last frame without R: it is skipped only if it
\* was acted on in the current hold, and it is acted on at most once in a hold.
C34_SkippedOnlyInHold ==
    (log.last.r /\ log.last.live) => (log.last.acted <=> ~log.last.was)

====
